---- MODULE Spec2Model ----
(***************************************************************************)
(* Circles backend (src/main.py): membership directory, content variant    *)
(* validator, post ingestion, poll ballots and seen state, modelled as a   *)
(* state machine over the MongoDB collections.  Every request handler is   *)
(* a sequence of atomic database operations; a request in flight keeps its *)
(* position and the values it read in reqs[slot], so that handlers of      *)
(* different requests interleave between database operations.              *)
(***************************************************************************)
EXTENDS Integers, Sequences, FiniteSets, TLC

VARIABLES
    circles,          \* circles_collection: circle id -> document, or NoCircle
    invite_tokens,    \* invite_tokens_collection: set of token documents
    invitations,      \* invitations_collection: invitation id -> document, or NoInvitation
    posts,            \* posts_collection: post id -> document, or NoPost
    activity_events,  \* activity_events_collection: set of event documents
    now,              \* datetime.now(timezone.utc), in hours
    reqs,             \* requests in flight: slot -> position, local values, response
    arg,              \* input of the pure function under check
    ret               \* its result

vars == <<circles, invite_tokens, invitations, posts, activity_events, now, reqs, arg, ret>>

dbvars == <<circles, invite_tokens, invitations, posts, activity_events>>

(***************************************************************************)
(* Bounds of the model.                                                    *)
(***************************************************************************)
NumUsers == 3
NumCircles == 1
NumSlots == 2
MaxInvitations == 1
MaxPosts == 1
MaxFeedPosts == 3
MaxFeedCircles == 2
MaxNameCircles == 3
MaxComments == 1
MaxMessages == 2
MaxTime == 2
MaxDuration == 1
MaxOptions == 2
MaxVideos == 1
MaxItems == 1
MaxTags == 2
MaxTagLen == 2

(***************************************************************************)
(* Program constants.                                                      *)
(***************************************************************************)
MinPollOptions == 2
MaxPollOptions == 10
MaxImages == 1
INVITE_TOKEN_EXPIRE_HOURS == 24

Users == 1..NumUsers
CircleIds == 1..NumCircles
Slots == 1..NumSlots
InvitationIds == 1..MaxInvitations
PostIds == 1..MaxPosts

\* Optional[T]: None is the empty tuple, a present value v is <<v>>.
None == <<>>
Some(v) == <<v>>

\* Python truthiness: None, "" and [] are falsy; a model object is always truthy.
TruthyStr(x) == x # None /\ x[1] # ""

TruthyList(x) == x # None /\ x[1] # <<>>

TruthyObj(x) == x # None

NoArg == [tag |-> "none"]

(***************************************************************************)
(* Tag canonicalization.  A tag is a sequence of characters.               *)
(***************************************************************************)
Chars == {" ", "A", "a", "b"}

\* ord(c)
Code(c) == CASE c = " " -> 32 [] c = "A" -> 65 [] c = "a" -> 97 [] c = "b" -> 98

IsSpace(c) == c = " "

\* str.lower() on one character
LowerChar(c) == IF c = "A" THEN "a" ELSE c

LowerStr(t) == [i \in 1..Len(t) |-> LowerChar(t[i])]

RECURSIVE LStrip(_)
LStrip(t) == IF t # <<>> /\ IsSpace(Head(t)) THEN LStrip(Tail(t)) ELSE t

RECURSIVE RStrip(_)
RStrip(t) == IF t # <<>> /\ IsSpace(t[Len(t)]) THEN RStrip(SubSeq(t, 1, Len(t) - 1)) ELSE t

\* str.strip()
StripStr(t) == RStrip(LStrip(t))

\* Python's str ordering: code points, left to right; a proper prefix is smaller.
RECURSIVE StrLess(_, _)
StrLess(s, t) ==
    IF t = <<>> THEN FALSE
    ELSE IF s = <<>> THEN TRUE
    ELSE IF Code(Head(s)) # Code(Head(t)) THEN Code(Head(s)) < Code(Head(t))
    ELSE StrLess(Tail(s), Tail(t))

\* sorted(S) for a set of strings
RECURSIVE SortedStrs(_)
SortedStrs(S) ==
    IF S = {} THEN <<>>
    ELSE LET m == CHOOSE x \in S : \A y \in S \ {x} : StrLess(x, y)
         IN  <<m>> \o SortedStrs(S \ {m})

\* list(set(...)) in place of sorted(set(...)): some order, for comparison
NormalizeTagsUnsorted(tags) ==
    LET S == { LowerStr(StripStr(tags[i])) : i \in { j \in 1..Len(tags) : StripStr(tags[j]) # <<>> } }
    IN  CHOOSE q \in [1..Cardinality(S) -> S] : \A x \in S : \E i \in 1..Cardinality(S) : q[i] = x

\* main.py:444  sorted(set(tag.strip().lower() for tag in self.tags if tag.strip()))
NormalizeTags(tags) ==
    SortedStrs({ LowerStr(StripStr(tags[i])) : i \in { j \in 1..Len(tags) : StripStr(tags[j]) # <<>> } })

\* the expression without lower(), for comparison
SanitizeTagsNoLower(tags) ==
    SortedStrs({ StripStr(tags[i]) : i \in { j \in 1..Len(tags) : StripStr(tags[j]) # <<>> } })

\* main.py:2030  the same expression in update_post
SanitizeTags(tags) ==
    SortedStrs({ LowerStr(StripStr(tags[i])) : i \in { j \in 1..Len(tags) : StripStr(tags[j]) # <<>> } })

(***************************************************************************)
(* Content variant validator (PostCreate, main.py:411-445).                *)
(***************************************************************************)
PostTypes == {"standard", "yt-playlist", "poll", "wishlist", "image", "spotify_playlist"}

\* PollData's field constraints: question min_length 1, options 2..10 items.
PollDataOk(pd) ==
    /\ pd.question # ""
    /\ Len(pd.options) >= MinPollOptions
    /\ Len(pd.options) <= MaxPollOptions

NOptions(k) == [i \in 1..k |-> [text |-> "opt"]]

RawPollDatas ==
    { [question |-> q, options |-> NOptions(k)] :
        q \in {"", "q"},
        k \in {MinPollOptions - 1, MinPollOptions, MaxOptions, MaxPollOptions, MaxPollOptions + 1} }

\* the poll_data values a parsed PostCreate can carry
PollDatas == {None} \cup { Some(pd) : pd \in { x \in RawPollDatas : PollDataOk(x) } }

PlaylistDatas ==
    {None} \cup { Some([name |-> n, videos |-> [i \in 1..k |-> "vid"]]) : n \in {"", "mix"}, k \in 0..MaxVideos }

WishlistDatas == {None} \cup { Some([i \in 1..k |-> "item"]) : k \in 0..MaxItems }

ImagesDatas == {None} \cup { Some([i \in 1..k |-> "img"]) : k \in 0..MaxImages }

Durations == {None} \cup { Some(d) : d \in (-1)..MaxDuration }

SpotifyDatas == {None, Some([playlist_name |-> "pl"])}

PlainLink == "https://ex.com/page"
ImageLink == "https://ex.com/pic.png"
SpotifyLink == "https://open.spotify.com/playlist/abc"

\* every parsed PostCreate whose chat fields and tags are left at their defaults
PostCreates ==
    [ post_type : PostTypes,
      text : {None, Some(""), Some("hi")},
      link : {None, Some(""), Some(PlainLink)},
      tags : {<<>>},
      playlist_data : PlaylistDatas,
      poll_data : PollDatas,
      wishlist_data : WishlistDatas,
      images_data : ImagesDatas,
      poll_duration_hours : Durations,
      spotify_playlist_data : SpotifyDatas,
      is_chat_enabled : {FALSE},
      chat_participant_ids : {None} ]

\* ValidationError with a duration of 0 let through
ValidationErrorLaxPoll(p) ==
    IF p.post_type = "standard" /\ ~TruthyStr(p.text) /\ ~TruthyStr(p.link)
        THEN "standard_needs_text_or_link"
    ELSE IF p.post_type = "yt-playlist"
            /\ (\/ ~TruthyObj(p.playlist_data)
                \/ p.playlist_data[1].name = ""
                \/ p.playlist_data[1].videos = <<>>)
        THEN "playlist_needs_name_and_video"
    ELSE IF p.post_type = "poll" /\ ~TruthyObj(p.poll_data)
        THEN "poll_needs_poll_data"
    ELSE IF p.post_type = "poll"
            /\ (p.poll_duration_hours = None \/ p.poll_duration_hours[1] < 0)
        THEN "poll_needs_valid_duration"
    ELSE IF p.post_type = "wishlist"
            /\ (~TruthyList(p.wishlist_data) \/ Len(p.wishlist_data[1]) = 0)
        THEN "wishlist_needs_item"
    ELSE IF p.post_type = "image" /\ ~TruthyList(p.images_data) /\ ~TruthyStr(p.link)
        THEN "image_needs_upload_or_link"
    ELSE IF p.post_type = "spotify_playlist" /\ ~TruthyStr(p.link) /\ ~TruthyObj(p.spotify_playlist_data)
        THEN "spotify_needs_link"
    ELSE "none"

\* The first ValueError validate_post_content raises, "none" when it raises none.
ValidationError(p) ==
    IF p.post_type = "standard" /\ ~TruthyStr(p.text) /\ ~TruthyStr(p.link)
        THEN "standard_needs_text_or_link"
    ELSE IF p.post_type = "yt-playlist"
            /\ (\/ ~TruthyObj(p.playlist_data)
                \/ p.playlist_data[1].name = ""
                \/ p.playlist_data[1].videos = <<>>)
        THEN "playlist_needs_name_and_video"
    ELSE IF p.post_type = "poll" /\ ~TruthyObj(p.poll_data)
        THEN "poll_needs_poll_data"
    ELSE IF p.post_type = "poll"
            /\ (p.poll_duration_hours = None \/ p.poll_duration_hours[1] <= 0)
        THEN "poll_needs_valid_duration"
    ELSE IF p.post_type = "wishlist"
            /\ (~TruthyList(p.wishlist_data) \/ Len(p.wishlist_data[1]) = 0)
        THEN "wishlist_needs_item"
    ELSE IF p.post_type = "image" /\ ~TruthyList(p.images_data) /\ ~TruthyStr(p.link)
        THEN "image_needs_upload_or_link"
    ELSE IF p.post_type = "spotify_playlist" /\ ~TruthyStr(p.link) /\ ~TruthyObj(p.spotify_playlist_data)
        THEN "spotify_needs_link"
    ELSE "none"

\* validate_post_content: raises, or returns self with its tags canonicalized
ValidatePostContent(p) ==
    IF ValidationError(p) # "none"
    THEN [ok |-> FALSE, error |-> ValidationError(p), value |-> p]
    ELSE [ok |-> TRUE, error |-> "none", value |-> [p EXCEPT !.tags = NormalizeTags(p.tags)]]

(***************************************************************************)
(* Documents and the empty database.                                       *)
(***************************************************************************)
NoCircle == [tag |-> "none"]
NoInvitation == [tag |-> "none"]
NoPost == [tag |-> "none"]
IdleReq == [pc |-> "idle"]

EmptyDb ==
    /\ circles = [c \in CircleIds |-> NoCircle]
    /\ invite_tokens = {}
    /\ invitations = [i \in InvitationIds |-> NoInvitation]
    /\ posts = [p \in PostIds |-> NoPost]
    /\ activity_events = {}

NoRequests == reqs = [s \in Slots |-> IdleReq]

(***************************************************************************)
(* Membership directory: helpers on a circle's embedded members array.     *)
(* A member document is [user_id, role, invited_by]; invited_by = 0 stands *)
(* for a document without that key.  The username is a function of the    *)
(* user id and is left out.                                                *)
(***************************************************************************)
Roles == {"member", "moderator", "admin"}

MemberDoc(u, role, inviter) == [user_id |-> u, role |-> role, invited_by |-> inviter]

\* any(m['user_id'] == u for m in members)
IsMember(members, u) == \E i \in 1..Len(members) : members[i].user_id = u

\* next((m for m in members if m['user_id'] == u), None), for a u that is present
FirstIndex(members, u) ==
    CHOOSE i \in 1..Len(members) :
        /\ members[i].user_id = u
        /\ \A j \in 1..(i - 1) : members[j].user_id # u

MemberInfo(members, u) == members[FirstIndex(members, u)]

\* {"$push": {array: doc}}, for comparison with $addToSet
PushAlways(arr, doc) == Append(arr, doc)

\* {"$addToSet": {array: doc}}: appended unless an equal document is present
AddToSet(arr, doc) ==
    IF \E i \in 1..Len(arr) : arr[i] = doc THEN arr ELSE Append(arr, doc)

\* a removal of the user's first document only, for comparison with $pull
PullFirstUser(arr, u) ==
    IF \E i \in 1..Len(arr) : arr[i].user_id = u
    THEN LET k == CHOOSE i \in 1..Len(arr) :
                    arr[i].user_id = u /\ \A j \in 1..(i - 1) : arr[j].user_id # u
         IN  SubSeq(arr, 1, k - 1) \o SubSeq(arr, k + 1, Len(arr))
    ELSE arr

\* {"$pull": {array: {"user_id": u}}}: every document of that user is removed
PullUser(arr, u) ==
    LET Keep(m) == m.user_id # u IN SelectSeq(arr, Keep)

\* {"$set": {"members.0.role": role}}, for comparison with the positional $
SetRoleAtHead(members, u, role) ==
    IF IsMember(members, u)
    THEN [members EXCEPT ![1].role = role]
    ELSE members

\* {"$set": {"members.$.role": role}} with the query members.user_id = u:
\* the positional operator updates the first matching element
SetFirstRole(members, u, role) ==
    IF IsMember(members, u)
    THEN [members EXCEPT ![FirstIndex(members, u)].role = role]
    ELSE members

\* number of member documents of user u
RecordsOf(members, u) == Cardinality({ i \in 1..Len(members) : members[i].user_id = u })

\* a check that lets every user through, for comparison
CheckCircleMembershipOpen(u, circle) ==
    [denied |-> FALSE, heal |-> FALSE, members |-> circle.members]

\* check_circle_membership(current_user, circle) on the circle document read:
\* denied, or allowed with the local copy of members, and whether the owner's
\* admin document has to be written to the collection
CheckCircleMembership(u, circle) ==
    IF circle.owner_id = u
    THEN IF ~IsMember(circle.members, u)
         THEN [denied |-> FALSE, heal |-> TRUE,
               members |-> Append(circle.members, MemberDoc(u, "admin", 0))]
         ELSE [denied |-> FALSE, heal |-> FALSE, members |-> circle.members]
    ELSE IF ~IsMember(circle.members, u)
         THEN [denied |-> TRUE, heal |-> FALSE, members |-> circle.members]
         ELSE [denied |-> FALSE, heal |-> FALSE, members |-> circle.members]

\* get_circle_and_user_role: 403 for a user without a member document
UserRole(u, circle) == MemberInfo(circle.members, u).role

\* RoleChangeStatus without the moderator's limit on the new role
RoleChangeStatusLax(circle, user_role, target, new_role) ==
    IF user_role = "admin"
    THEN IF target = circle.owner_id /\ new_role # "admin" THEN 403 ELSE 0
    ELSE IF user_role = "moderator"
    THEN IF MemberInfo(circle.members, target).role \in {"admin", "moderator"} THEN 403 ELSE 0
    ELSE 403

\* update_circle_member_role, lines 1563-1570: 0 when the change is permitted,
\* else the status of the HTTPException
RoleChangeStatus(circle, user_role, target, new_role) ==
    IF user_role = "admin"
    THEN IF target = circle.owner_id /\ new_role # "admin" THEN 403 ELSE 0
    ELSE IF user_role = "moderator"
    THEN IF \/ MemberInfo(circle.members, target).role \in {"admin", "moderator"}
            \/ new_role \in {"admin", "moderator"}
         THEN 403 ELSE 0
    ELSE 403

\* KickStatus without the refusal of the owner as target
KickStatusNoOwnerGuard(circle, user_role, target) ==
    IF ~(user_role = "admin"
         \/ (user_role = "moderator" /\ MemberInfo(circle.members, target).role = "member"))
    THEN 403
    ELSE 0

\* KickStatus with moderators allowed to remove members of any role
KickStatusAnyModerator(circle, user_role, target) ==
    IF target = circle.owner_id THEN 403
    ELSE IF ~(user_role = "admin" \/ user_role = "moderator")
    THEN 403
    ELSE 0

\* kick_circle_member, lines 1585-1592
KickStatus(circle, user_role, target) ==
    IF target = circle.owner_id THEN 403
    ELSE IF ~(user_role = "admin"
              \/ (user_role = "moderator" /\ MemberInfo(circle.members, target).role = "member"))
    THEN 403
    ELSE 0

\* str lower-casing of a circle name, for the case-insensitive $regex match
CircleNames == {"fam", "Fam"}

LowerName(n) == IF n = "Fam" THEN "fam" ELSE n

(***************************************************************************)
(* Requests.  reqs[s] is IdleReq, or the request slot s is serving: its    *)
(* kind, actor and arguments, the handler's position pc, the values the    *)
(* handler holds in local variables, and at pc = "done" the HTTP status.   *)
(***************************************************************************)
Done(r, status) ==
    [pc |-> "done", kind |-> r.kind, actor |-> r.actor, args |-> r.args, status |-> status]

\* a handler's return with the response body
DoneWith(r, status, body) ==
    [pc |-> "done", kind |-> r.kind, actor |-> r.actor, args |-> r.args,
     status |-> status, body |-> body]

\* slot s is free; of several free slots the lowest takes the next request
Idle(s) ==
    /\ reqs[s].pc = "idle"
    /\ \A t \in 1..(s - 1) : reqs[t].pc # "idle"

SetReq(s, r) == reqs' = [reqs EXCEPT ![s] = r]

\* the handler returns: the response leaves the server
Respond(s) ==
    /\ reqs[s].pc = "done"
    /\ SetReq(s, IdleReq)
    /\ UNCHANGED <<dbvars, now, arg, ret>>

FreeCircleIds == { c \in DOMAIN circles : circles[c] = NoCircle }

FreeInvitationIds == { i \in InvitationIds : invitations[i] = NoInvitation }

InFlight(kind) == { s \in Slots : reqs[s].pc \notin {"idle", "done"} /\ reqs[s].kind = kind }

Req(kind, u, args) == [pc |-> "start", kind |-> kind, actor |-> u, args |-> args]

\* circles_collection.update_one({"_id": c}, ...) on the members array; a
\* deleted circle matches nothing
UpdateMembers(c, members) ==
    circles' = IF circles[c] = NoCircle THEN circles
               ELSE [circles EXCEPT ![c].members = members]

(***************************************************************************)
(* POST /circles  (create_circle)                                          *)
(***************************************************************************)
CreateCircleStart(s, u, name, pub) ==
    /\ Idle(s)
    /\ Cardinality(FreeCircleIds) > Cardinality(InFlight("create_circle"))
    /\ LET r == Req("create_circle", u, [name |-> name, is_public |-> pub])
           existing == \E c \in DOMAIN circles :
                          /\ circles[c] # NoCircle
                          /\ IsMember(circles[c].members, u)
                          /\ LowerName(circles[c].name) = LowerName(name)
       IN  IF existing THEN SetReq(s, Done(r, 409))
           ELSE SetReq(s, [r EXCEPT !.pc = "circle_insert"])
    /\ UNCHANGED <<dbvars, now, arg, ret>>

\* a circle document without its owner's member document, for comparison
NewCircleDocNoOwner(u, name, pub) ==
    [name |-> name, owner_id |-> u, is_public |-> pub, members |-> <<>>]

\* create_circle's new_circle_doc: the owner is the first member, an admin
NewCircleDoc(u, name, pub) ==
    [name |-> name, owner_id |-> u, is_public |-> pub,
     members |-> <<MemberDoc(u, "admin", 0)>>]

CreateCircleInsert(s) ==
    /\ reqs[s].pc = "circle_insert"
    /\ FreeCircleIds # {}
    /\ LET r == reqs[s]
           c == CHOOSE x \in FreeCircleIds : \A y \in FreeCircleIds : x <= y
       IN  /\ circles' = [circles EXCEPT ![c] = NewCircleDoc(r.actor, r.args.name, r.args.is_public)]
           /\ SetReq(s, Done(r, 201))
    /\ UNCHANGED <<invite_tokens, invitations, posts, activity_events, now, arg, ret>>

(***************************************************************************)
(* check_circle_membership's write: the owner's admin document             *)
(***************************************************************************)
HealWrite(s) ==
    /\ reqs[s].pc = "heal"
    /\ LET r == reqs[s]
           c == r.circle
       IN  /\ UpdateMembers(c, AddToSet(circles[c].members, MemberDoc(r.actor, "admin", 0)))
           /\ SetReq(s, IF r.after = 0 THEN [r EXCEPT !.pc = r.next] ELSE Done(r, r.after))
    /\ UNCHANGED <<invite_tokens, invitations, posts, activity_events, now, arg, ret>>

\* The request after get_circle_or_404 and check_circle_membership: 404, 403,
\* or on to `next` (through the owner's write when it is due) holding `local`;
\* `after` is a status the handler raises right after the check (0: none).
AfterCheck(r, c, next, after, local) ==
    IF circles[c] = NoCircle THEN Done(r, 404)
    ELSE LET chk == CheckCircleMembership(r.actor, circles[c])
         IN  IF chk.denied THEN Done(r, 403)
             ELSE IF chk.heal
                  THEN [pc |-> "heal", kind |-> r.kind, actor |-> r.actor, args |-> r.args,
                        circle |-> c, next |-> next, after |-> after, local |-> local,
                        is_in_members |-> FALSE]
             ELSE IF after # 0 THEN Done(r, after)
             ELSE [pc |-> next, kind |-> r.kind, actor |-> r.actor, args |-> r.args,
                   circle |-> c, next |-> next, after |-> 0, local |-> local,
                   is_in_members |-> TRUE]

(***************************************************************************)
(* POST /circles/{id}/invite-token  (create_invite_token)                  *)
(***************************************************************************)
CreateInviteTokenStart(s, u, c) ==
    /\ Idle(s)
    /\ SetReq(s, AfterCheck(Req("create_invite_token", u, [circle_id |-> c]), c, "token_insert", 0, 0))
    /\ UNCHANGED <<dbvars, now, arg, ret>>

CreateInviteTokenInsert(s) ==
    /\ reqs[s].pc = "token_insert"
    /\ LET r == reqs[s]
       IN  /\ invite_tokens' = invite_tokens \cup
                  {[circle_id |-> r.args.circle_id, inviter_id |-> r.actor,
                    expires_at |-> now + INVITE_TOKEN_EXPIRE_HOURS]}
           /\ SetReq(s, Done(r, 200))
    /\ UNCHANGED <<circles, invitations, posts, activity_events, now, arg, ret>>

(***************************************************************************)
(* POST /circles/{id}/invite-user  (invite_user_to_circle)                 *)
(***************************************************************************)
InviteUserStart(s, u, c, invitee) ==
    /\ Idle(s)
    /\ Cardinality(FreeInvitationIds) > Cardinality(InFlight("invite_user"))
    /\ LET r == Req("invite_user", u, [circle_id |-> c, invitee |-> invitee])
           after == IF invitee = u THEN 400
                    ELSE IF circles[c] # NoCircle
                            /\ IsMember(CheckCircleMembership(u, circles[c]).members, invitee)
                    THEN 400 ELSE 0
       IN  SetReq(s, AfterCheck(r, c, "invite_find", after, 0))
    /\ UNCHANGED <<dbvars, now, arg, ret>>

\* invitations_collection.find_one(... pending ...)
InviteUserFind(s) ==
    /\ reqs[s].pc = "invite_find"
    /\ LET r == reqs[s]
           existing == \E i \in InvitationIds :
                          /\ invitations[i] # NoInvitation
                          /\ invitations[i].circle_id = r.args.circle_id
                          /\ invitations[i].invitee_id = r.args.invitee
                          /\ invitations[i].status = "pending"
       IN  SetReq(s, IF existing THEN Done(r, 400) ELSE [r EXCEPT !.pc = "invite_insert"])
    /\ UNCHANGED <<dbvars, now, arg, ret>>

InviteUserInsert(s) ==
    /\ reqs[s].pc = "invite_insert"
    /\ FreeInvitationIds # {}
    /\ LET r == reqs[s]
           i == CHOOSE x \in FreeInvitationIds : \A y \in FreeInvitationIds : x <= y
       IN  /\ invitations' = [invitations EXCEPT ![i] =
                  [circle_id |-> r.args.circle_id, inviter_id |-> r.actor,
                   invitee_id |-> r.args.invitee, status |-> "pending"]]
           /\ SetReq(s, Done(r, 201))
    /\ UNCHANGED <<circles, invite_tokens, posts, activity_events, now, arg, ret>>

(***************************************************************************)
(* POST /circles/join-by-token  (join_circle_by_token)                     *)
(***************************************************************************)
\* tok is a token document of the collection, or None for a string that is no token
JoinByTokenStart(s, u, tok) ==
    /\ Idle(s)
    /\ tok \in {None} \cup { Some(t) : t \in invite_tokens }
    /\ LET r == Req("join_by_token", u, [token |-> tok])
       IN  IF tok = None \/ ~(tok[1].expires_at > now) THEN SetReq(s, Done(r, 400))
           ELSE LET c == tok[1].circle_id
                IN  IF circles[c] = NoCircle THEN SetReq(s, Done(r, 404))
                    ELSE IF IsMember(circles[c].members, u) THEN SetReq(s, Done(r, 200))
                    ELSE SetReq(s, [pc |-> "join_write", kind |-> r.kind, actor |-> u, args |-> r.args,
                                    local |-> [circle_id |-> c,
                                               doc |-> MemberDoc(u, "member", tok[1].inviter_id)]])
    /\ UNCHANGED <<dbvars, now, arg, ret>>

JoinByTokenWrite(s) ==
    /\ reqs[s].pc = "join_write"
    /\ LET r == reqs[s]
           c == r.local.circle_id
       IN  /\ UpdateMembers(c, AddToSet(circles[c].members, r.local.doc))
           /\ SetReq(s, Done(r, 200))
    /\ UNCHANGED <<invite_tokens, invitations, posts, activity_events, now, arg, ret>>

(***************************************************************************)
(* POST /invitations/{id}/accept  (accept_invitation)                      *)
(***************************************************************************)
AcceptInvitationStart(s, u, i) ==
    /\ Idle(s)
    /\ LET r == Req("accept_invitation", u, [invitation_id |-> i])
           inv == invitations[i]
       IN  IF inv = NoInvitation THEN SetReq(s, Done(r, 404))
           ELSE IF inv.invitee_id # u THEN SetReq(s, Done(r, 403))
           ELSE IF inv.status # "pending" THEN SetReq(s, Done(r, 400))
           ELSE SetReq(s, [pc |-> "accept_read_circle", kind |-> r.kind, actor |-> u, args |-> r.args,
                           local |-> [circle_id |-> inv.circle_id, inviter_id |-> inv.inviter_id,
                                      name |-> "", is_member |-> FALSE]])
    /\ UNCHANGED <<dbvars, now, arg, ret>>

\* get_circle_or_404(invitation["circle_id"])
AcceptInvitationReadCircle(s) ==
    /\ reqs[s].pc = "accept_read_circle"
    /\ LET r == reqs[s]
           c == r.local.circle_id
       IN  IF circles[c] = NoCircle THEN SetReq(s, Done(r, 404))
           ELSE SetReq(s, [r EXCEPT !.pc = "accept_find_same_name",
                                    !.local.name = circles[c].name,
                                    !.local.is_member = IsMember(circles[c].members, r.actor)])
    /\ UNCHANGED <<dbvars, now, arg, ret>>

\* the find_one for another circle of the same name, then the membership test
\* on the circle document read before
AcceptInvitationFindSameName(s) ==
    /\ reqs[s].pc = "accept_find_same_name"
    /\ LET r == reqs[s]
           same == \E c \in DOMAIN circles :
                      /\ c # r.local.circle_id
                      /\ circles[c] # NoCircle
                      /\ IsMember(circles[c].members, r.actor)
                      /\ LowerName(circles[c].name) = LowerName(r.local.name)
       IN  SetReq(s, IF same THEN Done(r, 409)
                     ELSE IF r.local.is_member THEN [r EXCEPT !.pc = "accept_mark_only"]
                     ELSE [r EXCEPT !.pc = "accept_add_member"])
    /\ UNCHANGED <<dbvars, now, arg, ret>>

SetInvitationStatus(i, status) ==
    invitations' = IF invitations[i] = NoInvitation THEN invitations
                   ELSE [invitations EXCEPT ![i].status = status]

\* already a member: the invitation is marked accepted and the request fails
AcceptInvitationMarkOnly(s) ==
    /\ reqs[s].pc = "accept_mark_only"
    /\ SetInvitationStatus(reqs[s].args.invitation_id, "accepted")
    /\ SetReq(s, Done(reqs[s], 400))
    /\ UNCHANGED <<circles, invite_tokens, posts, activity_events, now, arg, ret>>

AcceptInvitationAddMember(s) ==
    /\ reqs[s].pc = "accept_add_member"
    /\ LET r == reqs[s]
           c == r.local.circle_id
       IN  /\ UpdateMembers(c, AddToSet(circles[c].members,
                                        MemberDoc(r.actor, "member", r.local.inviter_id)))
           /\ SetReq(s, [r EXCEPT !.pc = "accept_set_status"])
    /\ UNCHANGED <<invite_tokens, invitations, posts, activity_events, now, arg, ret>>

AcceptInvitationSetStatus(s) ==
    /\ reqs[s].pc = "accept_set_status"
    /\ SetInvitationStatus(reqs[s].args.invitation_id, "accepted")
    /\ SetReq(s, Done(reqs[s], 200))
    /\ UNCHANGED <<circles, invite_tokens, posts, activity_events, now, arg, ret>>

(***************************************************************************)
(* POST /invitations/{id}/reject  (reject_invitation)                      *)
(***************************************************************************)
\* lines 1715-1719: the invitation is read and tested
RejectInvitationStart(s, u, i) ==
    /\ Idle(s)
    /\ LET r == Req("reject_invitation", u, [invitation_id |-> i])
           inv == invitations[i]
       IN  IF inv = NoInvitation THEN SetReq(s, Done(r, 404))
           ELSE IF inv.invitee_id # u THEN SetReq(s, Done(r, 403))
           ELSE IF inv.status # "pending" THEN SetReq(s, Done(r, 400))
           ELSE SetReq(s, [pc |-> "reject_read_circle", kind |-> r.kind, actor |-> u,
                           args |-> r.args, local |-> [circle_id |-> inv.circle_id]])
    /\ UNCHANGED <<dbvars, now, arg, ret>>

\* line 1721: get_circle_or_404(invitation["circle_id"])
RejectInvitationReadCircle(s) ==
    /\ reqs[s].pc = "reject_read_circle"
    /\ SetReq(s, IF circles[reqs[s].local.circle_id] = NoCircle THEN Done(reqs[s], 404)
                 ELSE [reqs[s] EXCEPT !.pc = "reject_set_status"])
    /\ UNCHANGED <<dbvars, now, arg, ret>>

\* line 1722: {"$set": {"status": "rejected"}} on the invitation's _id
RejectInvitationSetStatus(s) ==
    /\ reqs[s].pc = "reject_set_status"
    /\ SetInvitationStatus(reqs[s].args.invitation_id, "rejected")
    /\ SetReq(s, Done(reqs[s], 200))
    /\ UNCHANGED <<circles, invite_tokens, posts, activity_events, now, arg, ret>>

(***************************************************************************)
(* get_circle_details, called by the member handlers for their response    *)
(***************************************************************************)
CircleDetailsStatus(u, c) ==
    IF circles[c] = NoCircle THEN 404
    ELSE IF ~circles[c].is_public /\ ~IsMember(circles[c].members, u) THEN 403
    ELSE 200

GetCircleDetails(s) ==
    /\ reqs[s].pc = "details"
    /\ SetReq(s, Done(reqs[s], CircleDetailsStatus(reqs[s].actor, reqs[s].args.circle_id)))
    /\ UNCHANGED <<dbvars, now, arg, ret>>

(***************************************************************************)
(* PATCH /circles/{id}  (update_circle_settings) with a name in the payload *)
(***************************************************************************)
\* lines 1511-1513: get_circle_and_user_role, admins only
UpdateCircleSettingsStart(s, u, c, name) ==
    /\ Idle(s)
    /\ LET r == Req("update_settings", u, [circle_id |-> c, name |-> name])
       IN  SetReq(s, IF circles[c] = NoCircle THEN Done(r, 404)
                     ELSE IF ~IsMember(circles[c].members, u) THEN Done(r, 403)
                     ELSE IF UserRole(u, circles[c]) # "admin" THEN Done(r, 403)
                     ELSE [r EXCEPT !.pc = "settings_write"])
    /\ UNCHANGED <<dbvars, now, arg, ret>>

\* lines 1530-1533: {"$set": {"name": name}}, then get_circle_details
UpdateCircleSettingsWrite(s) ==
    /\ reqs[s].pc = "settings_write"
    /\ LET r == reqs[s]
           c == r.args.circle_id
       IN  /\ circles' = IF circles[c] = NoCircle THEN circles
                         ELSE [circles EXCEPT ![c].name = r.args.name]
           /\ SetReq(s, [r EXCEPT !.pc = "details"])
    /\ UNCHANGED <<invite_tokens, invitations, posts, activity_events, now, arg, ret>>

(***************************************************************************)
(* PATCH /circles/{id}/members/{user_id}  (update_circle_member_role)      *)
(***************************************************************************)
UpdateRoleStart(s, u, c, target, role) ==
    /\ Idle(s)
    /\ LET r == Req("update_role", u, [circle_id |-> c, target |-> target, role |-> role])
       IN  IF circles[c] = NoCircle THEN SetReq(s, Done(r, 404))
           ELSE IF ~IsMember(circles[c].members, u) THEN SetReq(s, Done(r, 403))
           ELSE IF ~IsMember(circles[c].members, target) THEN SetReq(s, Done(r, 404))
           ELSE LET st == RoleChangeStatus(circles[c], UserRole(u, circles[c]), target, role)
                IN  SetReq(s, IF st # 0 THEN Done(r, st) ELSE [r EXCEPT !.pc = "role_write"])
    /\ UNCHANGED <<dbvars, now, arg, ret>>

UpdateRoleWrite(s) ==
    /\ reqs[s].pc = "role_write"
    /\ LET r == reqs[s]
           c == r.args.circle_id
       IN  /\ UpdateMembers(c, SetFirstRole(circles[c].members, r.args.target, r.args.role))
           /\ SetReq(s, [r EXCEPT !.pc = "details"])
    /\ UNCHANGED <<invite_tokens, invitations, posts, activity_events, now, arg, ret>>

(***************************************************************************)
(* DELETE /circles/{id}/members/{user_id}  (kick_circle_member)            *)
(***************************************************************************)
KickStart(s, u, c, target) ==
    /\ Idle(s)
    /\ LET r == Req("kick", u, [circle_id |-> c, target |-> target])
       IN  IF target = u THEN SetReq(s, Done(r, 400))
           ELSE IF circles[c] = NoCircle THEN SetReq(s, Done(r, 404))
           ELSE IF ~IsMember(circles[c].members, u) THEN SetReq(s, Done(r, 403))
           ELSE IF ~IsMember(circles[c].members, target) THEN SetReq(s, Done(r, 404))
           ELSE LET st == KickStatus(circles[c], UserRole(u, circles[c]), target)
                IN  SetReq(s, IF st # 0 THEN Done(r, st)
                              ELSE [pc |-> "kick_write", kind |-> r.kind, actor |-> u,
                                    args |-> r.args,
                                    local |-> [user_role |-> UserRole(u, circles[c])]])
    /\ UNCHANGED <<dbvars, now, arg, ret>>

KickWrite(s) ==
    /\ reqs[s].pc = "kick_write"
    /\ LET r == reqs[s]
           c == r.args.circle_id
       IN  /\ UpdateMembers(c, PullUser(circles[c].members, r.args.target))
           /\ SetReq(s, [r EXCEPT !.pc = "details"])
    /\ UNCHANGED <<invite_tokens, invitations, posts, activity_events, now, arg, ret>>

(***************************************************************************)
(* Posts.  A post document is [circle_id, author_id, created_at, post_type, *)
(* tags, options, expires_at, seen_by_details, comment_count,               *)
(* is_chat_enabled, chat_participants, chat_messages]: of content only the *)
(* post_type, the tags, the poll's options (each with its votes, a set of  *)
(* user ids) and expires_at are kept.  seen_by_details is a set of         *)
(* [user_id, seen_at] documents.                                           *)
(***************************************************************************)
FreePostIds == { p \in PostIds : posts[p] = NoPost }

\* re.search(r'\.(jpg|jpeg|png|gif|webp)$', link.lower())
ImageMatch(link) == link = Some(ImageLink)

\* re.search(r'(?:https?:\/\/open\.spotify\.com\/|spotify:)playlist[\/:]([a-zA-Z0-9]+)', link)
SpotifyMatch(link) == link = Some(SpotifyLink)

\* what the Spotify API and the Cloudinary upload can answer to one request
SpotifyOutcomes == {"unconfigured", "ok", "not_found", "api_error"}
CloudinaryOutcomes == {"unconfigured", "ok", "failed"}
ExternalOutcomes == [spotify : SpotifyOutcomes, cloudinary : CloudinaryOutcomes]

\* create_post_in_circle, lines 1802-1826: 0 and the enriched submission, or
\* the status of the HTTPException
SpotifyEnrich(p, ext) ==
    IF p.post_type = "spotify_playlist" /\ TruthyStr(p.link)
    THEN IF ext.spotify = "unconfigured" THEN [status |-> 503, p |-> p]
         ELSE IF ~SpotifyMatch(p.link) THEN [status |-> 400, p |-> p]
         ELSE IF ext.spotify = "not_found" THEN [status |-> 404, p |-> p]
         ELSE IF ext.spotify = "api_error" THEN [status |-> 502, p |-> p]
         ELSE [status |-> 0,
               p |-> [p EXCEPT !.spotify_playlist_data = Some([playlist_name |-> "pl"]),
                               !.link = None]]
    ELSE [status |-> 0, p |-> p]

\* lines 1828-1846: the upload of a linked image; a failed upload leaves a
\* standard post
CloudinaryEnrich(p, ext) ==
    LET is_standard_post_with_image_link ==
            p.post_type = "standard" /\ TruthyStr(p.link) /\ ImageMatch(p.link)
        is_image_post_with_link ==
            p.post_type = "image" /\ TruthyStr(p.link) /\ ~TruthyList(p.images_data)
    IN  IF (is_standard_post_with_image_link \/ is_image_post_with_link)
           /\ ext.cloudinary # "unconfigured"
        THEN IF ext.cloudinary = "ok"
             THEN [p EXCEPT !.post_type = "image", !.images_data = Some(<<"img">>),
                            !.link = None, !.text = None]
             ELSE [p EXCEPT !.post_type = "standard"]
        ELSE p

\* the requested ids alone, without the author, for comparison
ChatParticipantsNoAuthor(u, p) ==
    IF p.is_chat_enabled
    THEN Some(IF p.chat_participant_ids = None THEN {} ELSE p.chat_participant_ids[1])
    ELSE None

\* lines 1880-1886: the participants of the post's chat, None without chat
ChatParticipants(u, p) ==
    IF p.is_chat_enabled
    THEN Some({u} \cup (IF p.chat_participant_ids = None THEN {} ELSE p.chat_participant_ids[1]))
    ELSE None

\* a document whose expires_at leaves the duration out, for comparison
NewPostDocNoDuration(c, u, p, t) ==
    [circle_id |-> c, author_id |-> u, created_at |-> t,
     post_type |-> p.post_type, tags |-> p.tags,
     options |-> IF p.post_type = "poll" /\ TruthyObj(p.poll_data)
                 THEN [i \in 1..Len(p.poll_data[1].options) |->
                          [text |-> p.poll_data[1].options[i].text, votes |-> {}]]
                 ELSE <<>>,
     expires_at |-> IF p.post_type = "poll" /\ TruthyObj(p.poll_data) THEN Some(t) ELSE None,
     seen_by_details |-> {}, comment_count |-> 0,
     is_chat_enabled |-> p.is_chat_enabled,
     chat_participants |-> ChatParticipants(u, p),
     chat_messages |-> <<>>]

\* lines 1858-1878 and 1895-1896: the document to insert
NewPostDoc(c, u, p, t) ==
    [circle_id |-> c, author_id |-> u, created_at |-> t,
     post_type |-> p.post_type, tags |-> p.tags,
     options |-> IF p.post_type = "poll" /\ TruthyObj(p.poll_data)
                 THEN [i \in 1..Len(p.poll_data[1].options) |->
                          [text |-> p.poll_data[1].options[i].text, votes |-> {}]]
                 ELSE <<>>,
     expires_at |-> IF /\ p.post_type = "poll" /\ TruthyObj(p.poll_data)
                       /\ p.poll_duration_hours # None /\ p.poll_duration_hours[1] # 0
                    THEN Some(t + p.poll_duration_hours[1])
                    ELSE None,
     seen_by_details |-> {}, comment_count |-> 0,
     is_chat_enabled |-> p.is_chat_enabled,
     chat_participants |-> ChatParticipants(u, p),
     chat_messages |-> <<>>]

\* the user ids of the circle document the handler holds
MemberIds(members) == { members[i].user_id : i \in 1..Len(members) }

(***************************************************************************)
(* POST /circles/{id}/posts  (create_post_in_circle)                       *)
(***************************************************************************)
CreatePostStart(s, u, c, p) ==
    /\ Idle(s)
    /\ Cardinality(FreePostIds) > Cardinality(InFlight("create_post"))
    /\ LET r == Req("create_post", u, [circle_id |-> c, post |-> p])
           local == IF circles[c] = NoCircle THEN {}
                    ELSE MemberIds(CheckCircleMembership(u, circles[c]).members)
       IN  SetReq(s, AfterCheck(r, c, "post_insert", 0, [member_ids |-> local]))
    /\ UNCHANGED <<dbvars, now, arg, ret>>

\* an insert that comes before the chat participants' check, for comparison
CreatePostInsertUnchecked(s) ==
    /\ reqs[s].pc = "post_insert"
    /\ FreePostIds # {}
    /\ \E ext \in ExternalOutcomes :
          LET r == reqs[s]
              sp == SpotifyEnrich(r.args.post, ext)
              v == ValidatePostContent(CloudinaryEnrich(sp.p, ext))
              id == CHOOSE x \in FreePostIds : \A y \in FreePostIds : x <= y
          IN  IF sp.status # 0 THEN SetReq(s, Done(r, sp.status)) /\ posts' = posts
              ELSE IF ~v.ok THEN SetReq(s, Done(r, 400)) /\ posts' = posts
              ELSE /\ posts' = [posts EXCEPT ![id] =
                                   NewPostDoc(r.args.circle_id, r.actor, v.value, now)]
                   /\ SetReq(s, IF /\ v.value.is_chat_enabled
                                   /\ ~(ChatParticipants(r.actor, v.value)[1]
                                           \subseteq r.local.member_ids)
                                THEN Done(r, 400)
                                ELSE [r EXCEPT !.pc = "post_event",
                                          !.local = [member_ids |-> r.local.member_ids,
                                                     post_id |-> id, timestamp |-> now]])
    /\ UNCHANGED <<circles, invite_tokens, invitations, activity_events, now, arg, ret>>

\* enrichment, validation, the document, the chat participants' check and
\* posts_collection.insert_one
CreatePostInsert(s) ==
    /\ reqs[s].pc = "post_insert"
    /\ FreePostIds # {}
    /\ \E ext \in ExternalOutcomes :
          LET r == reqs[s]
              sp == SpotifyEnrich(r.args.post, ext)
              v == ValidatePostContent(CloudinaryEnrich(sp.p, ext))
              id == CHOOSE x \in FreePostIds : \A y \in FreePostIds : x <= y
          IN  IF sp.status # 0 THEN SetReq(s, Done(r, sp.status)) /\ posts' = posts
              ELSE IF ~v.ok THEN SetReq(s, Done(r, 400)) /\ posts' = posts
              ELSE IF /\ v.value.is_chat_enabled
                      /\ ~(ChatParticipants(r.actor, v.value)[1] \subseteq r.local.member_ids)
                   THEN SetReq(s, Done(r, 400)) /\ posts' = posts
              ELSE /\ posts' = [posts EXCEPT ![id] =
                                   NewPostDoc(r.args.circle_id, r.actor, v.value, now)]
                   /\ SetReq(s, [r EXCEPT !.pc = "post_event",
                                          !.local = [member_ids |-> r.local.member_ids,
                                                     post_id |-> id, timestamp |-> now]])
    /\ UNCHANGED <<circles, invite_tokens, invitations, activity_events, now, arg, ret>>

\* lines 1900-1912: the activity event for the other members
CreatePostEvent(s) ==
    /\ reqs[s].pc = "post_event"
    /\ LET r == reqs[s]
           other_member_ids == r.local.member_ids \ {r.actor}
       IN  activity_events' =
               IF other_member_ids # {}
               THEN activity_events \cup
                       {[circle_id |-> r.args.circle_id, post_id |-> r.local.post_id,
                         actor_id |-> r.actor, event_type |-> "new_post",
                         timestamp |-> r.local.timestamp,
                         notified_user_ids |-> other_member_ids]}
               ELSE activity_events
    /\ SetReq(s, [reqs[s] EXCEPT !.pc = "post_fetch"])
    /\ UNCHANGED <<circles, invite_tokens, invitations, posts, now, arg, ret>>

\* line 1919: PostOut(**created_post, is_seen_by_user=False) of the stored
\* document as find_one returns it; the fields PostOut does not declare
\* (seen_by_details, chat_messages) are dropped, the ones the document lacks
\* take PostOut's defaults
CreatedPostOut(post, id) ==
    [id |-> id, circle_id |-> post.circle_id, author_id |-> post.author_id,
     created_at |-> post.created_at,
     content |-> [post_type |-> post.post_type, tags |-> post.tags,
                  options |-> post.options, expires_at |-> post.expires_at],
     seen_by_count |-> 0, comment_count |-> post.comment_count,
     is_chat_enabled |-> post.is_chat_enabled, is_seen_by_user |-> FALSE,
     poll_results |-> None, chat_participants |-> post.chat_participants,
     seen_by_user_objects |-> {}]

\* lines 1915-1919: the created post is read back
CreatePostFetch(s) ==
    /\ reqs[s].pc = "post_fetch"
    /\ LET r == reqs[s]
           id == r.local.post_id
       IN  SetReq(s, IF posts[id] = NoPost THEN Done(r, 500)
                     ELSE DoneWith(r, 201, CreatedPostOut(posts[id], id)))
    /\ UNCHANGED <<dbvars, now, arg, ret>>

(***************************************************************************)
(* POST /posts/{id}/seen  (mark_post_as_seen)                              *)
(***************************************************************************)
\* get_post_or_404
MarkSeenStart(s, u, p) ==
    /\ Idle(s)
    /\ LET r == Req("mark_seen", u, [post_id |-> p])
       IN  SetReq(s, IF posts[p] = NoPost THEN Done(r, 404)
                     ELSE [pc |-> "seen_read_circle", kind |-> r.kind, actor |-> u,
                           args |-> r.args, local |-> [circle_id |-> posts[p].circle_id]])
    /\ UNCHANGED <<dbvars, now, arg, ret>>

\* get_circle_or_404 and check_circle_membership
MarkSeenReadCircle(s) ==
    /\ reqs[s].pc = "seen_read_circle"
    /\ SetReq(s, AfterCheck(reqs[s], reqs[s].local.circle_id, "seen_pull", 0, reqs[s].local))
    /\ UNCHANGED <<dbvars, now, arg, ret>>

UpdatePost(p, doc) ==
    posts' = IF posts[p] = NoPost THEN posts ELSE [posts EXCEPT ![p] = doc]

\* {"$pull": {"seen_by_details": {"user_id": u}}}
\* a pull that removes nothing, for comparison
PullSeenNothing(details, u) == details

\* {"$pull": {"seen_by_details": {"user_id": u}}}
PullSeen(details, u) == { d \in details : d.user_id # u }

MarkSeenPull(s) ==
    /\ reqs[s].pc = "seen_pull"
    /\ LET r == reqs[s]
           p == r.args.post_id
       IN  UpdatePost(p, [posts[p] EXCEPT !.seen_by_details = PullSeen(@, r.actor)])
    /\ SetReq(s, [reqs[s] EXCEPT !.pc = "seen_add"])
    /\ UNCHANGED <<circles, invite_tokens, invitations, activity_events, now, arg, ret>>

\* {"$addToSet": {"seen_by_details": {user_id, seen_at: now}}}
MarkSeenAdd(s) ==
    /\ reqs[s].pc = "seen_add"
    /\ LET r == reqs[s]
           p == r.args.post_id
       IN  UpdatePost(p, [posts[p] EXCEPT !.seen_by_details =
                                              @ \cup {[user_id |-> r.actor, seen_at |-> now]}])
    /\ SetReq(s, Done(reqs[s], 204))
    /\ UNCHANGED <<circles, invite_tokens, invitations, activity_events, now, arg, ret>>

(***************************************************************************)
(* GET /posts/{id}/seen-status  (get_post_seen_status)                     *)
(***************************************************************************)
\* a response that lists every member as unseen, for comparison
SeenStatusAllUnseen(members, seen_user_ids) ==
    LET ids == [i \in 1..Len(members) |-> members[i].user_id]
        Seen(u) == u \in seen_user_ids
    IN  [seen |-> SelectSeq(ids, Seen), unseen |-> ids]

\* lines 1938-1945: the members of the circle document the handler holds, in
\* their order, each on the seen list when seen_by_details names the user
SeenStatus(members, seen_user_ids) ==
    LET ids == [i \in 1..Len(members) |-> members[i].user_id]
        Seen(u) == u \in seen_user_ids
        Unseen(u) == u \notin seen_user_ids
    IN  [seen |-> SelectSeq(ids, Seen), unseen |-> SelectSeq(ids, Unseen)]

\* get_post_or_404
SeenStatusStart(s, u, p) ==
    /\ Idle(s)
    /\ LET r == Req("seen_status", u, [post_id |-> p])
       IN  SetReq(s, IF posts[p] = NoPost THEN Done(r, 404)
                     ELSE [pc |-> "status_read_circle", kind |-> r.kind, actor |-> u,
                           args |-> r.args,
                           local |-> [circle_id |-> posts[p].circle_id,
                                      seen_user_ids |->
                                         { d.user_id : d \in posts[p].seen_by_details },
                                      members |-> <<>>]])
    /\ UNCHANGED <<dbvars, now, arg, ret>>

\* get_circle_or_404 and check_circle_membership, which appends the owner's
\* document to the circle the handler holds when it was missing
SeenStatusReadCircle(s) ==
    /\ reqs[s].pc = "status_read_circle"
    /\ LET r == reqs[s]
           c == r.local.circle_id
           members == IF circles[c] = NoCircle THEN <<>>
                      ELSE CheckCircleMembership(r.actor, circles[c]).members
       IN  SetReq(s, AfterCheck(r, c, "status_reply", 0,
                                [r.local EXCEPT !.members = members]))
    /\ UNCHANGED <<dbvars, now, arg, ret>>

SeenStatusReply(s) ==
    /\ reqs[s].pc = "status_reply"
    /\ SetReq(s, DoneWith(reqs[s], 200,
                          SeenStatus(reqs[s].local.members, reqs[s].local.seen_user_ids)))
    /\ UNCHANGED <<dbvars, now, arg, ret>>

(***************************************************************************)
(* POST /posts/{id}/comments  (create_comment_on_post)                     *)
(* thread_user_id is None or Some(user).                                   *)
(***************************************************************************)
\* line 2110: get_post_or_404
CreateCommentStart(s, u, p, thread_user_id) ==
    /\ Idle(s)
    /\ posts[p] # NoPost =>
          posts[p].comment_count + Cardinality(InFlight("create_comment")) < MaxComments
    /\ LET r == Req("create_comment", u, [post_id |-> p, thread_user_id |-> thread_user_id])
       IN  SetReq(s, IF posts[p] = NoPost THEN Done(r, 404)
                     ELSE [pc |-> "comment_read_circle", kind |-> r.kind, actor |-> u,
                           args |-> r.args,
                           local |-> [circle_id |-> posts[p].circle_id,
                                      author_id |-> posts[p].author_id]])
    /\ UNCHANGED <<dbvars, now, arg, ret>>

\* lines 2111-2121: get_circle_or_404, check_circle_membership and the rule
\* for the post's author
CreateCommentReadCircle(s) ==
    /\ reqs[s].pc = "comment_read_circle"
    /\ LET r == reqs[s]
           is_author == r.actor = r.local.author_id
           refused == is_author /\ r.args.thread_user_id \in {None, Some(r.actor)}
       IN  SetReq(s, AfterCheck(r, r.local.circle_id, "comment_write",
                                IF refused THEN 403 ELSE 0, r.local))
    /\ UNCHANGED <<dbvars, now, arg, ret>>

\* lines 2128-2129: the comment is inserted, then {"$inc": {"comment_count": 1},
\* "$pull": {"seen_by_details": {"user_id": post["author_id"]}}}
CreateCommentWrite(s) ==
    /\ reqs[s].pc = "comment_write"
    /\ LET r == reqs[s]
           p == r.args.post_id
       IN  UpdatePost(p, [posts[p] EXCEPT
                 !.comment_count = @ + 1,
                 !.seen_by_details = PullSeen(@, r.local.author_id)])
    /\ SetReq(s, Done(reqs[s], 201))
    /\ UNCHANGED <<circles, invite_tokens, invitations, activity_events, now, arg, ret>>

(***************************************************************************)
(* POST /posts/{id}/poll-vote  (vote_on_poll); option_index counts from 0  *)
(***************************************************************************)
VoteStart(s, u, p, option_index) ==
    /\ Idle(s)
    /\ LET r == Req("vote", u, [post_id |-> p, option_index |-> option_index])
       IN  SetReq(s, IF posts[p] = NoPost THEN Done(r, 404)
                     ELSE IF posts[p].post_type # "poll" THEN Done(r, 400)
                     ELSE [pc |-> "vote_read_circle", kind |-> r.kind, actor |-> u,
                           args |-> r.args,
                           local |-> [circle_id |-> posts[p].circle_id,
                                      expires_at |-> posts[p].expires_at,
                                      options |-> posts[p].options,
                                      n_options |-> Len(posts[p].options), i |-> 0]])
    /\ UNCHANGED <<dbvars, now, arg, ret>>

VoteReadCircle(s) ==
    /\ reqs[s].pc = "vote_read_circle"
    /\ SetReq(s, AfterCheck(reqs[s], reqs[s].local.circle_id, "vote_expiry", 0, reqs[s].local))
    /\ UNCHANGED <<dbvars, now, arg, ret>>

\* the expiry test without the test of the index, for comparison
VoteExpiryNoIndexCheck(s) ==
    /\ reqs[s].pc = "vote_expiry"
    /\ LET r == reqs[s]
       IN  SetReq(s, IF r.local.expires_at # None /\ now > r.local.expires_at[1]
                        THEN Done(r, 403)
                     ELSE [r EXCEPT !.pc = "vote_pull"])
    /\ UNCHANGED <<dbvars, now, arg, ret>>

\* lines 1956-1966: the clock is read, then the index is checked
VoteExpiry(s) ==
    /\ reqs[s].pc = "vote_expiry"
    /\ LET r == reqs[s]
       IN  SetReq(s, IF r.local.expires_at # None /\ now > r.local.expires_at[1]
                        THEN Done(r, 403)
                     ELSE IF ~(0 <= r.args.option_index /\ r.args.option_index < r.local.n_options)
                        THEN Done(r, 400)
                     ELSE [r EXCEPT !.pc = "vote_pull"])
    /\ UNCHANGED <<dbvars, now, arg, ret>>

\* the loop without its updates, for comparison
VotePullNothing(s) ==
    /\ reqs[s].pc = "vote_pull"
    /\ LET r == reqs[s]
           i == r.local.i + 1
       IN  SetReq(s, [r EXCEPT !.local.i = i,
                               !.pc = IF i = r.local.n_options THEN "vote_add" ELSE "vote_pull"])
    /\ UNCHANGED <<dbvars, now, arg, ret>>

\* one update of the loop of lines 1968-1972: the voter leaves option i
VotePull(s) ==
    /\ reqs[s].pc = "vote_pull"
    /\ LET r == reqs[s]
           p == r.args.post_id
           i == r.local.i + 1
       IN  /\ UpdatePost(p, IF i <= Len(posts[p].options)
                            THEN [posts[p] EXCEPT !.options[i].votes = @ \ {r.actor}]
                            ELSE posts[p])
           /\ SetReq(s, [r EXCEPT !.local.i = i,
                                  !.pc = IF i = r.local.n_options THEN "vote_add" ELSE "vote_pull"])
    /\ UNCHANGED <<circles, invite_tokens, invitations, activity_events, now, arg, ret>>

\* an update that moves the voter to the chosen option in one step, for comparison
VoteAddExclusive(s) ==
    /\ reqs[s].pc = "vote_add"
    /\ LET r == reqs[s]
           p == r.args.post_id
           i == r.args.option_index + 1
       IN  UpdatePost(p, [posts[p] EXCEPT !.options =
                             [k \in 1..Len(posts[p].options) |->
                                 [posts[p].options[k] EXCEPT !.votes =
                                     IF k = i THEN @ \cup {r.actor} ELSE @ \ {r.actor}]]])
    /\ SetReq(s, [reqs[s] EXCEPT !.pc = "vote_tally"])
    /\ UNCHANGED <<circles, invite_tokens, invitations, activity_events, now, arg, ret>>

\* lines 1974-1977: $addToSet on the chosen option
VoteAdd(s) ==
    /\ reqs[s].pc = "vote_add"
    /\ LET r == reqs[s]
           p == r.args.post_id
           i == r.args.option_index + 1
       IN  UpdatePost(p, IF i <= Len(posts[p].options)
                         THEN [posts[p] EXCEPT !.options[i].votes = @ \cup {r.actor}]
                         ELSE posts[p])
    /\ SetReq(s, [reqs[s] EXCEPT !.pc = "vote_tally"])
    /\ UNCHANGED <<circles, invite_tokens, invitations, activity_events, now, arg, ret>>

(***************************************************************************)
(* _get_posts_aggregation_pipeline and PostOut: what a viewer is shown of  *)
(* a post.  The viewer is a user, or Anonymous for a request without a     *)
(* token.  A key the pipeline leaves out of its document is None.          *)
(***************************************************************************)
Anonymous == 0

Viewers == Users \cup {Anonymous}

RECURSIVE SumVotes(_)
SumVotes(options) ==
    IF options = <<>> THEN 0
    ELSE Cardinality(options[1].votes) + SumVotes(Tail(options))

\* $indexOfArray of True in the per-option "viewer in votes" list: from 0, -1 for none
UserVotedIndex(options, viewer) ==
    IF \E i \in 1..Len(options) : viewer \in options[i].votes
    THEN (CHOOSE i \in 1..Len(options) :
              /\ viewer \in options[i].votes
              /\ \A j \in 1..(i - 1) : viewer \notin options[j].votes) - 1
    ELSE -1

\* poll_results with is_expired for a clock that has reached expires_at, for comparison
PollResultsClosedAtDeadline(post, viewer, t) ==
    [total_votes |-> SumVotes(post.options),
     options |-> [i \in 1..Len(post.options) |->
                     [text |-> post.options[i].text,
                      votes |-> Cardinality(post.options[i].votes)]],
     user_voted_index |-> UserVotedIndex(post.options, viewer),
     is_expired |-> (post.expires_at = None \/ t >= post.expires_at[1]),
     expires_at |-> post.expires_at]

\* lines 762-774: poll_results; {"$gt": [now, "$content.expires_at"]} is true
\* for a document without expires_at
PollResults(post, viewer, t) ==
    [total_votes |-> SumVotes(post.options),
     options |-> [i \in 1..Len(post.options) |->
                     [text |-> post.options[i].text,
                      votes |-> Cardinality(post.options[i].votes)]],
     user_voted_index |-> UserVotedIndex(post.options, viewer),
     is_expired |-> (post.expires_at = None \/ t > post.expires_at[1]),
     expires_at |-> post.expires_at]

\* content with the options' votes left in, for comparison
ProjectedContentRaw(post) ==
    [post_type |-> post.post_type, tags |-> post.tags,
     options |-> post.options,
     expires_at |-> post.expires_at]

\* the final $project: content without the options' votes
ProjectedContent(post) ==
    [post_type |-> post.post_type, tags |-> post.tags,
     options |-> [i \in 1..Len(post.options) |-> [text |-> post.options[i].text]],
     expires_at |-> post.expires_at]

\* lines 775-786: chat_participants is kept for a participant of an enabled chat
ChatParticipantsShownToAll(post, viewer) == post.chat_participants

ChatParticipantsShown(post, viewer) ==
    IF viewer = Anonymous THEN post.chat_participants
    ELSE IF /\ post.is_chat_enabled
            /\ post.chat_participants # None
            /\ viewer \in post.chat_participants[1]
         THEN post.chat_participants
         ELSE None

\* the document the pipeline yields for the post with _id id, seen_by_details
\* and the votes projected away
AggregatePost(post, id, viewer, t) ==
    [id |-> id, circle_id |-> post.circle_id, author_id |-> post.author_id,
     created_at |-> post.created_at,
     content |-> ProjectedContent(post),
     seen_by_count |-> Cardinality(post.seen_by_details),
     comment_count |-> post.comment_count,
     is_chat_enabled |-> post.is_chat_enabled,
     is_seen_by_user |-> IF viewer = Anonymous THEN None
                         ELSE Some(\E d \in post.seen_by_details : d.user_id = viewer),
     poll_results |-> IF viewer # Anonymous /\ post.post_type = "poll"
                      THEN Some(PollResults(post, viewer, t)) ELSE None,
     chat_participants |-> ChatParticipantsShown(post, viewer),
     seen_by_user_objects |-> { d.user_id : d \in post.seen_by_details }]

\* PostOut(**p): the model's fields, with the default for a missing key
PostOut(doc) ==
    [doc EXCEPT !.is_seen_by_user = IF @ = None THEN FALSE ELSE @[1]]

(***************************************************************************)
(* PATCH /circles/{id}/posts/{post_id}  (update_post)                      *)
(* An update names the fields it sets: Some(v) for a field of the payload, *)
(* None for a field left out.                                              *)
(***************************************************************************)
EmptyUpdate == [tags |-> None, is_chat_enabled |-> None, chat_participant_ids |-> None]

\* a $set that keeps the participants when chat is switched off, for comparison
UpdatePostSetOpKeepList(post, upd, member_ids) ==
    [status |-> 0,
     set |-> [tags |-> IF upd.tags = None THEN None ELSE Some(SanitizeTags(upd.tags[1])),
              is_chat_enabled |-> upd.is_chat_enabled,
              chat_participants |-> None]]

\* lines 2023-2071: the $set of the update, or status 400 when a requested
\* participant is not a member of the circle the handler read
UpdatePostSetOp(post, upd, member_ids) ==
    LET current_is_chat_enabled == post.is_chat_enabled
        final_is_chat_enabled == IF upd.is_chat_enabled = None THEN current_is_chat_enabled
                                 ELSE upd.is_chat_enabled[1]
        participant_id_set == IF upd.chat_participant_ids = None THEN {}
                              ELSE upd.chat_participant_ids[1] \cup {post.author_id}
        tags == IF upd.tags = None THEN None ELSE Some(SanitizeTags(upd.tags[1]))
    IN  IF /\ final_is_chat_enabled /\ upd.chat_participant_ids # None
           /\ ~(participant_id_set \subseteq member_ids)
        THEN [status |-> 400, set |-> EmptyUpdate]
        ELSE [status |-> 0,
              set |-> [tags |-> tags,
                       is_chat_enabled |-> upd.is_chat_enabled,
                       chat_participants |->
                          IF ~final_is_chat_enabled
                          THEN IF upd.is_chat_enabled # None THEN Some({}) ELSE None
                          ELSE IF upd.chat_participant_ids # None
                               THEN Some(participant_id_set)
                          ELSE IF upd.is_chat_enabled # None /\ ~current_is_chat_enabled
                               THEN Some({post.author_id})
                          ELSE None]]

NoSetOp == [tags |-> None, is_chat_enabled |-> None, chat_participants |-> None]

\* the edit's permission test without the author-or-moderator rule, for comparison
EditStatusAnyMember(circle, post, u) ==
    IF ~IsMember(circle.members, u) THEN 403 ELSE 0

\* lines 2004-2010: 0 when u may edit the post, else the status raised
EditStatus(circle, post, u) ==
    IF ~IsMember(circle.members, u) THEN 403
    ELSE IF post.author_id = u \/ MemberInfo(circle.members, u).role \in {"moderator", "admin"}
         THEN 0
    ELSE 403

\* lines 1996-2071: the circle and the post are read, the permission tested
\* and the $set built
UpdatePostStart(s, u, c, p, upd) ==
    /\ Idle(s)
    /\ LET r == Req("update_post", u, [circle_id |-> c, post_id |-> p, update |-> upd])
           op == UpdatePostSetOp(posts[p], upd, MemberIds(circles[c].members))
       IN  SetReq(s, IF circles[c] = NoCircle THEN Done(r, 404)
                     ELSE IF posts[p] = NoPost \/ posts[p].circle_id # c THEN Done(r, 404)
                     ELSE IF EditStatus(circles[c], posts[p], u) # 0
                          THEN Done(r, EditStatus(circles[c], posts[p], u))
                     ELSE IF upd = EmptyUpdate
                          THEN [pc |-> "upd_fetch", kind |-> r.kind, actor |-> u,
                                args |-> r.args, local |-> [set |-> NoSetOp]]
                     ELSE IF op.status # 0 THEN Done(r, op.status)
                     ELSE [pc |-> IF op.set = NoSetOp THEN "upd_fetch" ELSE "upd_write",
                           kind |-> r.kind, actor |-> u,
                           args |-> r.args, local |-> [set |-> op.set]])
    /\ UNCHANGED <<dbvars, now, arg, ret>>

\* lines 2073-2074: update_one({"_id": post["_id"]}, {"$set": set_op})
UpdatePostWrite(s) ==
    /\ reqs[s].pc = "upd_write"
    /\ LET r == reqs[s]
           p == r.args.post_id
           set == r.local.set
       IN  UpdatePost(p, [posts[p] EXCEPT
                 !.tags = IF set.tags = None THEN @ ELSE set.tags[1],
                 !.is_chat_enabled = IF set.is_chat_enabled = None THEN @
                                     ELSE set.is_chat_enabled[1],
                 !.chat_participants = IF set.chat_participants = None THEN @
                                       ELSE set.chat_participants])
    /\ SetReq(s, [reqs[s] EXCEPT !.pc = "upd_fetch"])
    /\ UNCHANGED <<circles, invite_tokens, invitations, activity_events, now, arg, ret>>

\* lines 2012-2021 and 2076-2087: the post is read back through the pipeline
UpdatePostFetch(s) ==
    /\ reqs[s].pc = "upd_fetch"
    /\ LET r == reqs[s]
           p == r.args.post_id
       IN  SetReq(s, IF posts[p] = NoPost THEN Done(r, 500)
                     ELSE DoneWith(r, 200, PostOut(AggregatePost(posts[p], p, r.actor, now))))
    /\ UNCHANGED <<dbvars, now, arg, ret>>

(***************************************************************************)
(* DELETE /circles/{id}/posts/{post_id}  (delete_post)                     *)
(***************************************************************************)
\* lines 2098-2101: the author, a moderator or an admin; a user without a
\* member document is judged as author only
DeleteStatus(circle, post, u) ==
    IF \/ post.author_id = u
       \/ /\ IsMember(circle.members, u)
          /\ MemberInfo(circle.members, u).role \in {"moderator", "admin"}
    THEN 0 ELSE 403

DeletePostStart(s, u, c, p) ==
    /\ Idle(s)
    /\ LET r == Req("delete_post", u, [circle_id |-> c, post_id |-> p])
       IN  SetReq(s, IF circles[c] = NoCircle THEN Done(r, 404)
                     ELSE IF posts[p] = NoPost \/ posts[p].circle_id # c THEN Done(r, 404)
                     ELSE IF DeleteStatus(circles[c], posts[p], u) # 0
                          THEN Done(r, DeleteStatus(circles[c], posts[p], u))
                     ELSE [pc |-> "del_write", kind |-> r.kind, actor |-> u,
                           args |-> r.args, local |-> 0])
    /\ UNCHANGED <<dbvars, now, arg, ret>>

\* posts_collection.delete_one
DeletePostDelete(s) ==
    /\ reqs[s].pc = "del_write"
    /\ posts' = [posts EXCEPT ![reqs[s].args.post_id] = NoPost]
    /\ SetReq(s, Done(reqs[s], 204))
    /\ UNCHANGED <<circles, invite_tokens, invitations, activity_events, now, arg, ret>>

(***************************************************************************)
(* POST /posts/{id}/chat  (post_chat_message)                              *)
(***************************************************************************)
\* lines 2263-2278: the post is read, chat and participation tested and the
\* message built
PostChatMessageStart(s, u, p) ==
    /\ Idle(s)
    /\ posts[p] # NoPost =>
          Len(posts[p].chat_messages) + Cardinality(InFlight("chat_message")) < MaxMessages
    /\ LET r == Req("chat_message", u, [post_id |-> p])
       IN  SetReq(s, IF posts[p] = NoPost THEN Done(r, 404)
                     ELSE IF ~posts[p].is_chat_enabled THEN Done(r, 404)
                     ELSE IF posts[p].chat_participants = None
                             \/ u \notin posts[p].chat_participants[1] THEN Done(r, 403)
                     ELSE [pc |-> "chat_push", kind |-> r.kind, actor |-> u, args |-> r.args,
                           local |-> [message |-> [sender_id |-> u, timestamp |-> now]]])
    /\ UNCHANGED <<dbvars, now, arg, ret>>

\* lines 2280-2285: {"$push": {"chat_messages": new_message_doc}}
PostChatMessagePush(s) ==
    /\ reqs[s].pc = "chat_push"
    /\ LET r == reqs[s]
           p == r.args.post_id
       IN  /\ UpdatePost(p, [posts[p] EXCEPT !.chat_messages = Append(@, r.local.message)])
           /\ SetReq(s, DoneWith(r, 201, r.local.message))
    /\ UNCHANGED <<circles, invite_tokens, invitations, activity_events, now, arg, ret>>

(***************************************************************************)
(* PUT /posts/{id}/chat/participants  (update_chat_participants)           *)
(***************************************************************************)
\* lines 2300-2317: the post is read and the author tested; line 2317 awaits
\* to_list of the synchronous driver's cursor, which raises (the cursor has
\* no awaitable to_list), so an author's request ends with 500 before the
\* update_one of line 2319 is reached
UpdateChatParticipants(s, u, p, participant_ids) ==
    /\ Idle(s)
    /\ LET r == Req("chat_participants", u, [post_id |-> p, participant_ids |-> participant_ids])
       IN  SetReq(s, IF posts[p] = NoPost THEN Done(r, 404)
                     ELSE IF posts[p].author_id # u THEN Done(r, 403)
                     ELSE Done(r, 500))
    /\ UNCHANGED <<dbvars, now, arg, ret>>

(***************************************************************************)
(* GET /circles/{id}/feed  (get_circle_feed)                               *)
(***************************************************************************)
FeedMatches(c, tag_list) ==
    { p \in DOMAIN posts :
        /\ posts[p] # NoPost
        /\ posts[p].circle_id = c
        /\ \A t \in tag_list : \E i \in 1..Len(posts[p].tags) : posts[p].tags[i] = t }

\* {"$sort": {"created_at": DESCENDING}}: every order of the matches that puts
\* a newer post before an older one
SortedNewest(S) ==
    { q \in [1..Cardinality(S) -> S] :
        /\ \A x \in S : \E i \in 1..Cardinality(S) : q[i] = x
        /\ \A i, j \in 1..Cardinality(S) :
              i < j => posts[q[i]].created_at >= posts[q[j]].created_at }

\* a window that starts at the first post whatever skip is, for comparison
PageFromStart(q, skip, limit) ==
    SubSeq(q, 1, IF limit < Len(q) THEN limit ELSE Len(q))

\* {"$skip": skip}, {"$limit": limit}
Page(q, skip, limit) ==
    SubSeq(q, skip + 1, IF skip + limit < Len(q) THEN skip + limit ELSE Len(q))

\* the feed without its authorization gate, for comparison
GetCircleFeedStartOpen(s, v, c, skip, limit, tag_list) ==
    /\ Idle(s)
    /\ LET r == Req("circle_feed", v, [circle_id |-> c, skip |-> skip, limit |-> limit,
                                        tags |-> tag_list])
       IN  SetReq(s, IF circles[c] = NoCircle THEN Done(r, 404)
                     ELSE [pc |-> "feed_count", kind |-> r.kind, actor |-> v,
                           args |-> r.args, local |-> [total_posts |-> 0]])
    /\ UNCHANGED <<dbvars, now, arg, ret>>

\* lines 1754-1773: the circle is read; a private circle asks for a member
GetCircleFeedStart(s, v, c, skip, limit, tag_list) ==
    /\ Idle(s)
    /\ LET r == Req("circle_feed", v, [circle_id |-> c, skip |-> skip, limit |-> limit,
                                        tags |-> tag_list])
       IN  SetReq(s, IF circles[c] = NoCircle THEN Done(r, 404)
                     ELSE IF circles[c].is_public
                        THEN [pc |-> "feed_count", kind |-> r.kind, actor |-> v,
                              args |-> r.args, local |-> [total_posts |-> 0]]
                     ELSE IF v = Anonymous THEN Done(r, 401)
                     ELSE AfterCheck(r, c, "feed_count", 0, [total_posts |-> 0]))
    /\ UNCHANGED <<dbvars, now, arg, ret>>

\* a count of the circle's posts that leaves the tag filter out, for comparison
GetCircleFeedCountAnyTag(s) ==
    /\ reqs[s].pc = "feed_count"
    /\ LET r == reqs[s]
       IN  SetReq(s, [r EXCEPT !.pc = "feed_aggregate",
                               !.local = [total_posts |->
                                   Cardinality(FeedMatches(r.args.circle_id, {}))]])
    /\ UNCHANGED <<dbvars, now, arg, ret>>

\* posts_collection.count_documents(match_query)
GetCircleFeedCount(s) ==
    /\ reqs[s].pc = "feed_count"
    /\ LET r == reqs[s]
       IN  SetReq(s, [r EXCEPT !.pc = "feed_aggregate",
                               !.local = [total_posts |->
                                   Cardinality(FeedMatches(r.args.circle_id, r.args.tags))]])
    /\ UNCHANGED <<dbvars, now, arg, ret>>

\* posts_collection.aggregate(pipeline) and the FeedResponse
GetCircleFeedAggregate(s) ==
    /\ reqs[s].pc = "feed_aggregate"
    /\ LET r == reqs[s]
       IN  \E q \in SortedNewest(FeedMatches(r.args.circle_id, r.args.tags)) :
              LET page == Page(q, r.args.skip, r.args.limit)
                  posts_list == [i \in 1..Len(page) |->
                                    PostOut(AggregatePost(posts[page[i]], page[i], r.actor, now))]
              IN  SetReq(s, DoneWith(r, 200,
                            [posts |-> posts_list,
                             has_more |-> (r.args.skip + Len(posts_list)) < r.local.total_posts]))
    /\ UNCHANGED <<dbvars, now, arg, ret>>

(***************************************************************************)
(* GET /feed  (get_my_feed); circle_id is None or Some(c)                  *)
(***************************************************************************)
\* circles_collection.find({"members.user_id": u})
UserCircles(u) ==
    { c \in DOMAIN circles : circles[c] # NoCircle /\ IsMember(circles[c].members, u) }

\* the match_query of the personal feed over the circles in circle_ids
MyFeedMatches(circle_ids, tag_list) ==
    { p \in DOMAIN posts :
        /\ posts[p] # NoPost
        /\ posts[p].circle_id \in circle_ids
        /\ \A t \in tag_list : \E i \in 1..Len(posts[p].tags) : posts[p].tags[i] = t }

\* lines 2220-2230: the viewer's circles are read; a viewer without a circle is
\* answered an empty feed, a filter by a circle of others is refused
GetMyFeedStart(s, u, circle_id, skip, limit, tag_list) ==
    /\ Idle(s)
    /\ LET r == Req("my_feed", u, [circle_id |-> circle_id, skip |-> skip,
                                   limit |-> limit, tags |-> tag_list])
       IN  SetReq(s, IF UserCircles(u) = {}
                     THEN DoneWith(r, 200, [posts |-> <<>>, has_more |-> FALSE])
                     ELSE IF circle_id # None /\ circle_id[1] \notin UserCircles(u)
                          THEN Done(r, 403)
                     ELSE [pc |-> "myfeed_count", kind |-> r.kind, actor |-> u, args |-> r.args,
                           local |-> [circle_ids |-> IF circle_id = None THEN UserCircles(u)
                                                     ELSE {circle_id[1]},
                                      total_posts |-> 0]])
    /\ UNCHANGED <<dbvars, now, arg, ret>>

\* posts_collection.count_documents(match_query)
GetMyFeedCount(s) ==
    /\ reqs[s].pc = "myfeed_count"
    /\ LET r == reqs[s]
       IN  SetReq(s, [r EXCEPT !.pc = "myfeed_aggregate",
                               !.local.total_posts =
                                   Cardinality(MyFeedMatches(r.local.circle_ids, r.args.tags))])
    /\ UNCHANGED <<dbvars, now, arg, ret>>

\* posts_collection.aggregate(pipeline) and the FeedResponse
GetMyFeedAggregate(s) ==
    /\ reqs[s].pc = "myfeed_aggregate"
    /\ LET r == reqs[s]
       IN  \E q \in SortedNewest(MyFeedMatches(r.local.circle_ids, r.args.tags)) :
              LET page == Page(q, r.args.skip, r.args.limit)
                  posts_list == [i \in 1..Len(page) |->
                                    PostOut(AggregatePost(posts[page[i]], page[i], r.actor, now))]
              IN  SetReq(s, DoneWith(r, 200,
                            [posts |-> posts_list,
                             has_more |-> (r.args.skip + Len(posts_list)) < r.local.total_posts]))
    /\ UNCHANGED <<dbvars, now, arg, ret>>

\* vote_on_poll, lines 1979-1992: the post is read back through the pipeline
\* for the voter; the response carries its poll_results
VoteTally(s) ==
    /\ reqs[s].pc = "vote_tally"
    /\ LET r == reqs[s]
           p == r.args.post_id
       IN  SetReq(s, IF posts[p] = NoPost THEN Done(r, 404)
                     ELSE DoneWith(r, 200,
                            [status |-> "success",
                             poll_results |-> AggregatePost(posts[p], p, r.actor, now).poll_results[1]]))
    /\ UNCHANGED <<dbvars, now, arg, ret>>

\* time passes
Tick ==
    /\ now < MaxTime
    /\ now' = now + 1
    /\ UNCHANGED <<dbvars, reqs, arg, ret>>

(***************************************************************************)
(* The membership directory under concurrent requests.  The database is    *)
(* empty at first, or holds one circle stored without its owner's member   *)
(* document (the case check_circle_membership repairs).                    *)
(***************************************************************************)
LegacyCircle ==
    [name |-> "fam", owner_id |-> 1, is_public |-> FALSE,
     members |-> <<MemberDoc(2, "member", 0)>>]

InitDbMembers ==
    /\ circles \in { [c \in CircleIds |-> NoCircle],
                     [c \in CircleIds |-> IF c = 1 THEN LegacyCircle ELSE NoCircle] }
    /\ invite_tokens = {}
    /\ invitations = [i \in InvitationIds |-> NoInvitation]
    /\ posts = [p \in PostIds |-> NoPost]
    /\ activity_events = {}

InitLegacy ==
    /\ InitDbMembers /\ NoRequests /\ now = 0
    /\ arg = NoArg /\ ret = NoArg

InitEmpty ==
    /\ EmptyDb /\ NoRequests /\ now = 0
    /\ arg = NoArg /\ ret = NoArg

TokenInputs == {None} \cup { Some(t) : t \in invite_tokens }

CreateStep(s) ==
    \/ CreateCircleStart(s, 1, "fam", FALSE)
    \/ CreateCircleInsert(s)

TokenStep(s, U) ==
    \/ \E u \in U, c \in CircleIds : CreateInviteTokenStart(s, u, c)
    \/ CreateInviteTokenInsert(s)

InviteStep(s, U, V) ==
    \/ \E u \in U, c \in CircleIds, v \in V : InviteUserStart(s, u, c, v)
    \/ InviteUserFind(s)
    \/ InviteUserInsert(s)

JoinStep(s) ==
    \/ \E u \in Users, tok \in TokenInputs : JoinByTokenStart(s, u, tok)
    \/ JoinByTokenWrite(s)
    \/ \E u \in Users, i \in InvitationIds : AcceptInvitationStart(s, u, i)
    \/ AcceptInvitationReadCircle(s)
    \/ AcceptInvitationFindSameName(s)
    \/ AcceptInvitationMarkOnly(s)
    \/ AcceptInvitationAddMember(s)
    \/ AcceptInvitationSetStatus(s)

RoleStep(s) ==
    \/ \E u \in Users, c \in CircleIds, t \in Users, r \in Roles : UpdateRoleStart(s, u, c, t, r)
    \/ UpdateRoleWrite(s)
    \/ \E u \in Users, c \in CircleIds, t \in Users : KickStart(s, u, c, t)
    \/ KickWrite(s)
    \/ GetCircleDetails(s)

MemberStep(s) ==
    \/ CreateStep(s) \/ TokenStep(s, Users) \/ InviteStep(s, Users, Users)
    \/ JoinStep(s) \/ RoleStep(s) \/ Respond(s)

\* every membership operation, one request after the other, on circles made
\* by create_circle
NextMembers == MemberStep(1)

SpecMembers == InitEmpty /\ [][NextMembers]_vars

\* joining, with and without the owner's member document stored
NextJoin ==
    \E s \in Slots :
        \/ CreateStep(s) \/ HealWrite(s) \/ TokenStep(s, Users) \/ InviteStep(s, Users, Users)
        \/ JoinStep(s) \/ Respond(s)

SpecJoin == InitLegacy /\ [][NextJoin]_vars

\* only handlers that authorize through check_circle_membership
NextOwnerChecks ==
    \E s \in Slots :
        CreateStep(s) \/ HealWrite(s) \/ TokenStep(s, Users) \/ InviteStep(s, Users, Users) \/ Respond(s)

SpecOwnerChecks == InitLegacy /\ [][NextOwnerChecks]_vars

(***************************************************************************)
(* Role changes and removals under concurrent requests, on a circle whose  *)
(* owner is its admin and whose other users hold any role or none.         *)
(***************************************************************************)
RoleAssignments == [ (Users \ {1}) -> Roles \cup {"absent"} ]

RECURSIVE MembersOf(_, _)
MembersOf(f, u) ==
    IF u > NumUsers THEN <<>>
    ELSE (IF f[u] = "absent" THEN <<>> ELSE <<MemberDoc(u, f[u], 1)>>) \o MembersOf(f, u + 1)

InitRoles ==
    /\ circles \in { [c \in CircleIds |->
                        IF c = 1
                        THEN [name |-> "fam", owner_id |-> 1, is_public |-> FALSE,
                              members |-> <<MemberDoc(1, "admin", 0)>> \o MembersOf(f, 2)]
                        ELSE NoCircle] : f \in RoleAssignments }
    /\ invite_tokens = {}
    /\ invitations = [i \in InvitationIds |-> NoInvitation]
    /\ posts = [p \in PostIds |-> NoPost]
    /\ activity_events = {}
    /\ NoRequests /\ now = 0
    /\ arg = NoArg /\ ret = NoArg

NextRoles == \E s \in Slots : RoleStep(s) \/ Respond(s)

SpecRoles == InitRoles /\ [][NextRoles]_vars

(***************************************************************************)
(* Posts of one circle: its owner, a member and an outsider create posts,  *)
(* mark them seen and vote, one request after the other, while time       *)
(* passes.                                                                 *)
(***************************************************************************)
BasePost ==
    [post_type |-> "standard", text |-> None, link |-> None, tags |-> <<>>,
     playlist_data |-> None, poll_data |-> None, wishlist_data |-> None,
     images_data |-> None, poll_duration_hours |-> None,
     spotify_playlist_data |-> None, is_chat_enabled |-> FALSE,
     chat_participant_ids |-> None]

PollInput(d) ==
    [BasePost EXCEPT !.post_type = "poll",
                     !.poll_data = Some([question |-> "q", options |-> NOptions(MaxOptions)]),
                     !.poll_duration_hours = d]

PostInputs ==
    { BasePost,
      [BasePost EXCEPT !.text = Some("hi")],
      [BasePost EXCEPT !.link = Some(ImageLink)],
      [BasePost EXCEPT !.post_type = "spotify_playlist", !.link = Some(SpotifyLink)],
      [BasePost EXCEPT !.text = Some("hi"), !.is_chat_enabled = TRUE,
                       !.chat_participant_ids = Some({2})],
      [BasePost EXCEPT !.text = Some("hi"), !.is_chat_enabled = TRUE,
                       !.chat_participant_ids = Some({3})],
      [BasePost EXCEPT !.text = Some("hi"), !.poll_data = Some([question |-> "q", options |-> NOptions(MaxOptions)]),
                       !.poll_duration_hours = Some(1)] }
    \cup { PollInput(d) : d \in {None} \cup { Some(x) : x \in 0..MaxDuration } }

MembersCircle ==
    [name |-> "fam", owner_id |-> 1, is_public |-> FALSE,
     members |-> <<MemberDoc(1, "admin", 0), MemberDoc(2, "member", 1)>>]

PublicCircle == [MembersCircle EXCEPT !.is_public = TRUE]

InitPosts ==
    /\ circles \in { [c \in CircleIds |-> IF c = 1 THEN MembersCircle ELSE NoCircle],
                     [c \in CircleIds |-> IF c = 1 THEN PublicCircle ELSE NoCircle],
                     [c \in CircleIds |-> IF c = 1 THEN LegacyCircle ELSE NoCircle] }
    /\ invite_tokens = {}
    /\ invitations = [i \in InvitationIds |-> NoInvitation]
    /\ posts = [p \in PostIds |-> NoPost]
    /\ activity_events = {}
    /\ NoRequests /\ now = 0
    /\ arg = NoArg /\ ret = NoArg

\* option_index: every index of a poll, one below and one above
OptionIndexes == (-1)..MaxOptions

PostStep(s) ==
    \/ \E u \in Users, c \in CircleIds, p \in PostInputs : CreatePostStart(s, u, c, p)
    \/ CreatePostInsert(s)
    \/ CreatePostEvent(s)
    \/ CreatePostFetch(s)
    \/ \E u \in Users, p \in PostIds : MarkSeenStart(s, u, p)
    \/ MarkSeenReadCircle(s)
    \/ MarkSeenPull(s)
    \/ MarkSeenAdd(s)
    \/ \E u \in Users, p \in PostIds, i \in OptionIndexes : VoteStart(s, u, p, i)
    \/ VoteReadCircle(s)
    \/ VoteExpiry(s)
    \/ VotePull(s)
    \/ VoteAdd(s)
    \/ VoteTally(s)

FeedStep(s) ==
    \/ \E v \in Viewers, c \in CircleIds, skip \in 0..MaxPosts, limit \in 1..MaxPosts :
          GetCircleFeedStart(s, v, c, skip, limit, {})
    \/ GetCircleFeedCount(s)
    \/ GetCircleFeedAggregate(s)

NextPosts ==
    \/ PostStep(1) \/ FeedStep(1) \/ HealWrite(1) \/ Respond(1)
    \/ Tick

SpecPosts == InitPosts /\ [][NextPosts]_vars

(***************************************************************************)
(* Votes on one open poll of a circle, by requests that run together.      *)
(***************************************************************************)
InitVotes ==
    /\ circles = [c \in CircleIds |-> IF c = 1 THEN MembersCircle ELSE NoCircle]
    /\ invite_tokens = {}
    /\ invitations = [i \in InvitationIds |-> NoInvitation]
    /\ posts = [p \in PostIds |->
                   IF p = 1 THEN NewPostDoc(1, 1, PollInput(Some(MaxDuration)), 0) ELSE NoPost]
    /\ activity_events = {}
    /\ NoRequests /\ now = 0
    /\ arg = NoArg /\ ret = NoArg

VoteStep(s) ==
    \/ \E u \in Users, p \in PostIds, i \in OptionIndexes : VoteStart(s, u, p, i)
    \/ VoteReadCircle(s)
    \/ VoteExpiry(s)
    \/ VotePull(s)
    \/ VoteAdd(s)
    \/ VoteTally(s)

NextVotes == \E s \in Slots : VoteStep(s) \/ Respond(s)

SpecVotes == InitVotes /\ [][NextVotes]_vars

(***************************************************************************)
(* Members marking one post of a circle as seen, by requests that run      *)
(* together.                                                               *)
(***************************************************************************)
InitSeen ==
    /\ circles = [c \in CircleIds |-> IF c = 1 THEN MembersCircle ELSE NoCircle]
    /\ invite_tokens = {}
    /\ invitations = [i \in InvitationIds |-> NoInvitation]
    /\ posts = [p \in PostIds |->
                   IF p = 1 THEN NewPostDoc(1, 1, [BasePost EXCEPT !.text = Some("hi")], 0)
                   ELSE NoPost]
    /\ activity_events = {}
    /\ NoRequests /\ now = 0
    /\ arg = NoArg /\ ret = NoArg

SeenStep(s) ==
    \/ \E u \in Users, p \in PostIds : MarkSeenStart(s, u, p)
    \/ MarkSeenReadCircle(s)
    \/ MarkSeenPull(s)
    \/ MarkSeenAdd(s)

NextSeen ==
    \/ \E s \in Slots : SeenStep(s) \/ Respond(s)
    \/ Tick

SpecSeen == InitSeen /\ [][NextSeen]_vars

(***************************************************************************)
(* A post that its author and the other member of the circle have marked   *)
(* as seen: further marks, comments and feed reads that run together.      *)
(***************************************************************************)
InitSeenAgain ==
    /\ circles = [c \in CircleIds |-> IF c = 1 THEN MembersCircle ELSE NoCircle]
    /\ invite_tokens = {}
    /\ invitations = [i \in InvitationIds |-> NoInvitation]
    /\ posts = [p \in PostIds |->
                   IF p = 1
                   THEN [NewPostDoc(1, 1, [BasePost EXCEPT !.text = Some("hi")], 0)
                            EXCEPT !.seen_by_details =
                                      { [user_id |-> u, seen_at |-> 0] : u \in {1, 2} }]
                   ELSE NoPost]
    /\ activity_events = {}
    /\ NoRequests /\ now = 0
    /\ arg = NoArg /\ ret = NoArg

SeenAgainStep(s) ==
    \/ SeenStep(s)
    \/ \E u \in Users, p \in PostIds, t \in {None} \cup { Some(v) : v \in Users } :
          CreateCommentStart(s, u, p, t)
    \/ CreateCommentReadCircle(s)
    \/ CreateCommentWrite(s)
    \/ \E v \in Users, c \in CircleIds : GetCircleFeedStart(s, v, c, 0, 1, {})
    \/ GetCircleFeedCount(s)
    \/ GetCircleFeedAggregate(s)
    \/ Respond(s)

NextSeenAgain == \E s \in Slots : SeenAgainStep(s)

SpecSeenAgain == InitSeenAgain /\ [][NextSeenAgain]_vars

(***************************************************************************)
(* Seen-status reads of a post that members and former members of its      *)
(* circle have marked.                                                     *)
(***************************************************************************)
FullCircle ==
    [MembersCircle EXCEPT !.members = Append(@, MemberDoc(NumUsers, "member", 1))]

InitSeenStatus ==
    /\ circles \in { [c \in CircleIds |-> IF c = 1 THEN x ELSE NoCircle] :
                        x \in {MembersCircle, LegacyCircle, FullCircle} }
    /\ invite_tokens = {}
    /\ invitations = [i \in InvitationIds |-> NoInvitation]
    /\ posts \in { [p \in PostIds |->
                      IF p = 1
                      THEN [NewPostDoc(1, 2, [BasePost EXCEPT !.text = Some("hi")], 0)
                               EXCEPT !.seen_by_details =
                                         { [user_id |-> u, seen_at |-> 1] : u \in seen }]
                      ELSE NoPost] : seen \in SUBSET Users }
    /\ activity_events = {}
    /\ NoRequests /\ now = MaxTime
    /\ arg = NoArg /\ ret = NoArg

NextSeenStatus ==
    \/ \E u \in Users, p \in PostIds : SeenStatusStart(1, u, p)
    \/ SeenStatusReadCircle(1)
    \/ SeenStatusReply(1)
    \/ HealWrite(1)
    \/ Respond(1)

SpecSeenStatus == InitSeenStatus /\ [][NextSeenStatus]_vars

(***************************************************************************)
(* Edits, deletions and chat on one post of a circle, by requests that run *)
(* together.                                                               *)
(***************************************************************************)
ModeratedCircle ==
    [MembersCircle EXCEPT !.members = Append(@, MemberDoc(NumUsers, "moderator", 1))]

ChatPostInput ==
    [BasePost EXCEPT !.text = Some("hi"), !.is_chat_enabled = TRUE,
                     !.chat_participant_ids = Some({1, 2})]

UpdateInputs ==
    { EmptyUpdate,
      [EmptyUpdate EXCEPT !.tags = Some(<< <<"b">> >>)],
      [EmptyUpdate EXCEPT !.is_chat_enabled = Some(TRUE)],
      [EmptyUpdate EXCEPT !.is_chat_enabled = Some(FALSE)],
      [EmptyUpdate EXCEPT !.chat_participant_ids = Some({1})],
      [EmptyUpdate EXCEPT !.is_chat_enabled = Some(TRUE),
                          !.chat_participant_ids = Some({NumUsers})] }

InitChat ==
    /\ circles = [c \in CircleIds |-> IF c = 1 THEN MembersCircle ELSE NoCircle]
    /\ invite_tokens = {}
    /\ invitations = [i \in InvitationIds |-> NoInvitation]
    /\ posts = [p \in PostIds |-> IF p = 1 THEN NewPostDoc(1, 2, ChatPostInput, 0) ELSE NoPost]
    /\ activity_events = {}
    /\ NoRequests /\ now = 0
    /\ arg = NoArg /\ ret = NoArg

ChatStep(s) ==
    \/ \E u \in Users, c \in CircleIds, p \in PostIds, upd \in UpdateInputs :
          UpdatePostStart(s, u, c, p, upd)
    \/ UpdatePostWrite(s)
    \/ UpdatePostFetch(s)
    \/ \E u \in Users, c \in CircleIds, p \in PostIds : DeletePostStart(s, u, c, p)
    \/ DeletePostDelete(s)
    \/ \E u \in Users, p \in PostIds : PostChatMessageStart(s, u, p)
    \/ PostChatMessagePush(s)
    \/ \E u \in Users, p \in PostIds : UpdateChatParticipants(s, u, p, {NumUsers})

NextChat == \E s \in Slots : ChatStep(s) \/ Respond(s)

SpecChat == InitChat /\ [][NextChat]_vars

(***************************************************************************)
(* The same requests one at a time, on a post of the owner or of a member, *)
(* with or without chat, in a circle with or without a moderator.          *)
(***************************************************************************)
InitEdit ==
    /\ circles \in { [c \in CircleIds |-> IF c = 1 THEN x ELSE NoCircle] :
                        x \in {MembersCircle, ModeratedCircle} }
    /\ invite_tokens = {}
    /\ invitations = [i \in InvitationIds |-> NoInvitation]
    /\ posts \in { [p \in PostIds |-> IF p = 1 THEN NewPostDoc(1, u, x, 0) ELSE NoPost] :
                      u \in {1, 2}, x \in {[BasePost EXCEPT !.text = Some("hi")], ChatPostInput} }
    /\ activity_events = {}
    /\ NoRequests /\ now = 0
    /\ arg = NoArg /\ ret = NoArg

NextEdit == ChatStep(1) \/ Respond(1)

SpecEdit == InitEdit /\ [][NextEdit]_vars

(***************************************************************************)
(* Two circles whose names differ in case only, each with its owner as the *)
(* one member, an invite link and an invitation to the second circle:      *)
(* creating, joining, accepting and renaming, one request at a time.       *)
(***************************************************************************)
NameCircleIds == 1..MaxNameCircles

InitNames ==
    /\ circles = [c \in NameCircleIds |->
                     IF c = 1 THEN NewCircleDoc(1, "fam", FALSE)
                     ELSE IF c = 2 THEN NewCircleDoc(2, "Fam", FALSE)
                     ELSE NoCircle]
    /\ invite_tokens = {[circle_id |-> 2, inviter_id |-> 2,
                         expires_at |-> INVITE_TOKEN_EXPIRE_HOURS]}
    /\ invitations \in { [i \in InvitationIds |->
                             [circle_id |-> 2, inviter_id |-> 2, invitee_id |-> u,
                              status |-> "pending"]] : u \in {1, NumUsers} }
    /\ posts = [p \in PostIds |-> NoPost]
    /\ activity_events = {}
    /\ NoRequests /\ now = 0
    /\ arg = NoArg /\ ret = NoArg

NextNames ==
    \/ \E u \in Users, name \in CircleNames : CreateCircleStart(1, u, name, FALSE)
    \/ CreateCircleInsert(1)
    \/ \E u \in Users, tok \in {None} \cup { Some(t) : t \in invite_tokens } :
          JoinByTokenStart(1, u, tok)
    \/ JoinByTokenWrite(1)
    \/ \E u \in Users, i \in InvitationIds : AcceptInvitationStart(1, u, i)
    \/ AcceptInvitationReadCircle(1)
    \/ AcceptInvitationFindSameName(1)
    \/ AcceptInvitationMarkOnly(1)
    \/ AcceptInvitationAddMember(1)
    \/ AcceptInvitationSetStatus(1)
    \/ \E u \in Users, c \in NameCircleIds, name \in CircleNames :
          UpdateCircleSettingsStart(1, u, c, name)
    \/ UpdateCircleSettingsWrite(1)
    \/ GetCircleDetails(1)
    \/ Respond(1)

SpecNames == InitNames /\ [][NextNames]_vars

(***************************************************************************)
(* Removals from a circle whose owner's post has a chat with a member as   *)
(* participant, and chat messages, one request at a time.                  *)
(***************************************************************************)
InitKicked ==
    /\ circles = [c \in CircleIds |-> IF c = 1 THEN FullCircle ELSE NoCircle]
    /\ invite_tokens = {}
    /\ invitations = [i \in InvitationIds |-> NoInvitation]
    /\ posts = [p \in PostIds |-> IF p = 1 THEN NewPostDoc(1, 1, ChatPostInput, 0) ELSE NoPost]
    /\ activity_events = {}
    /\ NoRequests /\ now = 0
    /\ arg = NoArg /\ ret = NoArg

NextKicked ==
    \/ \E u, target \in Users, c \in CircleIds : KickStart(1, u, c, target)
    \/ KickWrite(1)
    \/ GetCircleDetails(1)
    \/ \E u \in Users, p \in PostIds : PostChatMessageStart(1, u, p)
    \/ PostChatMessagePush(1)
    \/ \E u \in Users, p \in PostIds : UpdateChatParticipants(1, u, p, {NumUsers})
    \/ Respond(1)

SpecKicked == InitKicked /\ [][NextKicked]_vars

(***************************************************************************)
(* One pending invitation of a user to the owner's circle, answered by     *)
(* accept and reject requests that run together.                           *)
(***************************************************************************)
InitAnswer ==
    /\ circles = [c \in CircleIds |-> IF c = 1 THEN NewCircleDoc(1, "fam", FALSE) ELSE NoCircle]
    /\ invite_tokens = {}
    /\ invitations = [i \in InvitationIds |->
                         [circle_id |-> 1, inviter_id |-> 1, invitee_id |-> 2,
                          status |-> "pending"]]
    /\ posts = [p \in PostIds |-> NoPost]
    /\ activity_events = {}
    /\ NoRequests /\ now = 0
    /\ arg = NoArg /\ ret = NoArg

AnswerStep(s) ==
    \/ \E u \in Users, i \in InvitationIds : AcceptInvitationStart(s, u, i)
    \/ AcceptInvitationReadCircle(s)
    \/ AcceptInvitationFindSameName(s)
    \/ AcceptInvitationMarkOnly(s)
    \/ AcceptInvitationAddMember(s)
    \/ AcceptInvitationSetStatus(s)
    \/ \E u \in Users, i \in InvitationIds : RejectInvitationStart(s, u, i)
    \/ RejectInvitationReadCircle(s)
    \/ RejectInvitationSetStatus(s)
    \/ Respond(s)

NextAnswer == \E s \in Slots : AnswerStep(s)

SpecAnswer == InitAnswer /\ [][NextAnswer]_vars

(***************************************************************************)
(* Feed reads of a circle that holds several posts, with no write under    *)
(* way: the posts differ in creation time and tags.                        *)
(***************************************************************************)
FeedPostIds == 1..MaxFeedPosts

FeedTag == <<"a">>

FeedPosts ==
    { NewPostDoc(1, 1, [BasePost EXCEPT !.text = Some("hi"), !.tags = tags], t) :
        tags \in {<<>>, <<FeedTag>>}, t \in 0..1 }

InitFeed ==
    /\ circles = [c \in CircleIds |-> IF c = 1 THEN MembersCircle ELSE NoCircle]
    /\ invite_tokens = {}
    /\ invitations = [i \in InvitationIds |-> NoInvitation]
    /\ posts \in [FeedPostIds -> FeedPosts \cup {NoPost}]
    /\ activity_events = {}
    /\ NoRequests /\ now = MaxTime
    /\ arg = NoArg /\ ret = NoArg

NextFeed ==
    \/ \E v \in {1, NumUsers}, skip \in 0..MaxFeedPosts, limit \in 1..MaxFeedPosts,
          tag_list \in {{}, {FeedTag}} :
          GetCircleFeedStart(1, v, 1, skip, limit, tag_list)
    \/ GetCircleFeedCount(1)
    \/ GetCircleFeedAggregate(1)
    \/ Respond(1)

SpecFeed == InitFeed /\ [][NextFeed]_vars

(***************************************************************************)
(* Personal feed reads over two circles, of which the viewer may belong to *)
(* one, both or none, with no write under way.                             *)
(***************************************************************************)
MyFeedCircleIds == 1..MaxFeedCircles

OtherCircles ==
    { NoCircle,
      [name |-> "club", owner_id |-> NumUsers, is_public |-> FALSE,
       members |-> <<MemberDoc(NumUsers, "admin", 0)>>],
      [name |-> "club", owner_id |-> NumUsers, is_public |-> FALSE,
       members |-> <<MemberDoc(NumUsers, "admin", 0), MemberDoc(2, "member", NumUsers)>>] }

InitMyFeed ==
    /\ circles \in { [c \in MyFeedCircleIds |-> IF c = 1 THEN MembersCircle ELSE x] :
                        x \in OtherCircles }
    /\ invite_tokens = {}
    /\ invitations = [i \in InvitationIds |-> NoInvitation]
    /\ posts \in [FeedPostIds ->
                    { NewPostDoc(c, 2, [BasePost EXCEPT !.text = Some("hi")], t) :
                         c \in MyFeedCircleIds, t \in 0..1 } \cup {NoPost}]
    /\ \A p \in FeedPostIds : posts[p] # NoPost => circles[posts[p].circle_id] # NoCircle
    /\ activity_events = {}
    /\ NoRequests /\ now = MaxTime
    /\ arg = NoArg /\ ret = NoArg

NextMyFeed ==
    \/ \E u \in Users, circle_id \in {None} \cup {Some(c) : c \in MyFeedCircleIds},
          skip \in 0..1, limit \in {1, MaxFeedPosts} :
          GetMyFeedStart(1, u, circle_id, skip, limit, {})
    \/ GetMyFeedCount(1)
    \/ GetMyFeedAggregate(1)
    \/ Respond(1)

SpecMyFeed == InitMyFeed /\ [][NextMyFeed]_vars

(***************************************************************************)
(* The enrichment of one poll in two states that agree on everything a     *)
(* viewer may learn: the options' counts, the viewer's own vote and the    *)
(* users who have seen the post; they differ in who else voted for what    *)
(* and in when the post was seen.                                          *)
(***************************************************************************)
VoteSets == [1..MaxOptions -> SUBSET Users]

SeenLists == { {}, {[user_id |-> 2, seen_at |-> 0]},
               {[user_id |-> 2, seen_at |-> 0], [user_id |-> 1, seen_at |-> MaxTime]} }

PollWith(votes, seen) ==
    [NewPostDoc(1, 1, PollInput(Some(MaxDuration)), 0) EXCEPT
        !.options = [i \in 1..MaxOptions |-> [text |-> "opt", votes |-> votes[i]]],
        !.seen_by_details = seen]

\* the same users have seen the post, at other times
SeenAtOtherTimes(seen) == { [user_id |-> d.user_id, seen_at |-> MaxTime - d.seen_at] : d \in seen }

\* the two posts give every option the same count and the viewer the same vote
SameBallot(a, b, viewer) ==
    \A i \in 1..MaxOptions :
        /\ Cardinality(a.options[i].votes) = Cardinality(b.options[i].votes)
        /\ (viewer \in a.options[i].votes) <=> (viewer \in b.options[i].votes)

InitEnrich ==
    /\ EmptyDb /\ NoRequests /\ now = 0
    /\ arg \in { [tag |-> "views", a |-> PollWith(va, seen),
                   b |-> PollWith(vb, SeenAtOtherTimes(seen)), viewer |-> v, t |-> t] :
                     va \in VoteSets, vb \in VoteSets, seen \in SeenLists,
                     v \in Viewers, t \in {0, MaxTime} }
    /\ SameBallot(arg.a, arg.b, arg.viewer)
    /\ ret = NoArg

\* the pipeline and PostOut on both states, for the same viewer at the same time
EnrichBoth ==
    /\ arg.tag = "views" /\ ret.tag = "none"
    /\ ret' = [tag |-> "enriched",
               a |-> PostOut(AggregatePost(arg.a, 1, arg.viewer, arg.t)),
               b |-> PostOut(AggregatePost(arg.b, 1, arg.viewer, arg.t))]
    /\ UNCHANGED <<dbvars, now, reqs, arg>>

NextEnrich == EnrichBoth

SpecEnrich == InitEnrich /\ [][NextEnrich]_vars

(***************************************************************************)
(* The pure functions, applied to every input within the bounds.           *)
(***************************************************************************)
TagStrs == UNION { [1..n -> Chars] : n \in 0..MaxTagLen }

TagLists == UNION { [1..n -> TagStrs] : n \in 0..MaxTags }

InitTags ==
    /\ EmptyDb /\ NoRequests /\ now = 0
    /\ arg \in { [tag |-> "tags", tags |-> t, canon |-> FALSE] : t \in TagLists }
    /\ ret = NoArg

\* PostCreate.validate_post_content, line 444: the tags of a new post
NormalizeOnCreate ==
    /\ arg.tag = "tags" /\ ret.tag = "none"
    /\ ret' = [tag |-> "tags", via |-> "create", tags |-> NormalizeTags(arg.tags)]
    /\ UNCHANGED <<dbvars, now, reqs, arg>>

\* update_post, lines 2029-2031: the tags of an edited post
SanitizeOnUpdate ==
    /\ arg.tag = "tags" /\ ret.tag = "none"
    /\ ret' = [tag |-> "tags", via |-> "update", tags |-> SanitizeTags(arg.tags)]
    /\ UNCHANGED <<dbvars, now, reqs, arg>>

\* the stored tags are submitted again, as they are
ResubmitTags ==
    /\ ret.tag = "tags"
    /\ arg' = [tag |-> "tags", tags |-> ret.tags, canon |-> TRUE]
    /\ ret' = NoArg
    /\ UNCHANGED <<dbvars, now, reqs>>

NextTags == NormalizeOnCreate \/ SanitizeOnUpdate \/ ResubmitTags

SpecTags == InitTags /\ [][NextTags]_vars

InitValidate ==
    /\ EmptyDb /\ NoRequests /\ now = 0
    /\ arg \in { [tag |-> "post_create", p |-> p] : p \in PostCreates }
    /\ ret = NoArg

\* post_data.validate_post_content() on a parsed submission
ValidateSubmission ==
    /\ arg.tag = "post_create" /\ ret.tag = "none"
    /\ ret' = [tag |-> "validated", result |-> ValidatePostContent(arg.p)]
    /\ UNCHANGED <<dbvars, now, reqs, arg>>

NextValidate == ValidateSubmission

SpecValidate == InitValidate /\ [][NextValidate]_vars

(***************************************************************************)
(* Claims about the validator and the tag canonicalization.                *)
(***************************************************************************)
HasStr(x) == x # None /\ x # Some("")

\* the rule of the declared post_type, as the validator's table states it
TypeRule(p) ==
    CASE p.post_type = "standard" -> HasStr(p.text) \/ HasStr(p.link)
      [] p.post_type = "yt-playlist" ->
            /\ p.playlist_data # None
            /\ p.playlist_data[1].name # ""
            /\ Len(p.playlist_data[1].videos) >= 1
      [] p.post_type = "poll" ->
            /\ p.poll_data # None
            /\ p.poll_data[1].question # ""
            /\ Len(p.poll_data[1].options) \in 2..10
            /\ p.poll_duration_hours # None
            /\ p.poll_duration_hours[1] > 0
      [] p.post_type = "wishlist" -> p.wishlist_data # None /\ Len(p.wishlist_data[1]) >= 1
      [] p.post_type = "image" ->
            (p.images_data # None /\ Len(p.images_data[1]) >= 1) \/ HasStr(p.link)
      [] p.post_type = "spotify_playlist" -> HasStr(p.link) \/ p.spotify_playlist_data # None

\* the post_type whose rule an error message belongs to
ErrorType(e) ==
    CASE e = "standard_needs_text_or_link" -> "standard"
      [] e = "playlist_needs_name_and_video" -> "yt-playlist"
      [] e \in {"poll_needs_poll_data", "poll_needs_valid_duration"} -> "poll"
      [] e = "wishlist_needs_item" -> "wishlist"
      [] e = "image_needs_upload_or_link" -> "image"
      [] e = "spotify_needs_link" -> "spotify_playlist"

\* C8: validate_post_content accepts a submission exactly when the rule of its
\* declared post_type holds, and a rejection is always by that type's own rule.
Thm_C8_ValidatorTable ==
    ret.tag = "validated" =>
        /\ ret.result.ok <=> TypeRule(arg.p)
        /\ ~ret.result.ok => ErrorType(ret.result.error) = arg.p.post_type

\* a standard post with neither text nor link, carrying other payloads, was rejected
Wit_C8_StandardRejected ==
    /\ ret.tag = "validated"
    /\ ~ret.result.ok
    /\ arg.p.post_type = "standard"
    /\ arg.p.text = None /\ arg.p.link = None
    /\ arg.p.poll_data # None /\ arg.p.wishlist_data # None

IsCanonical(ts) ==
    /\ \A i \in 1..Len(ts) :
        /\ ts[i] # <<>>
        /\ ts[i][1] # " " /\ ts[i][Len(ts[i])] # " "
        /\ \A k \in 1..Len(ts[i]) : ts[i][k] # "A"
    /\ \A i, j \in 1..Len(ts) : i < j => StrLess(ts[i], ts[j])

\* C9: the tags stored by create and by update are trimmed, lowercase, free of
\* duplicates and empty tags, and sorted; submitting them again stores them unchanged.
Thm_C9_TagsCanonical ==
    ret.tag = "tags" =>
        /\ IsCanonical(ret.tags)
        /\ arg.canon => ret.tags = arg.tags

\* two stored tags were submitted again through update_post
Wit_C9_Resubmitted ==
    /\ ret.tag = "tags" /\ ret.via = "update"
    /\ arg.canon
    /\ Len(ret.tags) = 2

(***************************************************************************)
(* Membership claims                                                       *)
(***************************************************************************)
ChecksMembership(r) == r.pc # "idle" /\ r.kind \in {"create_invite_token", "invite_user"}

OwnerRequest(r, c) ==
    /\ ChecksMembership(r)
    /\ r.args.circle_id = c
    /\ circles[c] # NoCircle
    /\ r.actor = circles[c].owner_id

\* C1: a request of the circle's owner never fails the membership check; once
\* it is past the check (and the write the check makes when the owner's
\* document is absent) the owner has exactly one member document, with role
\* admin; repeated and concurrent owner checks never leave more than one.
Thm_C1_OwnerCheckHeals ==
    \A c \in CircleIds : circles[c] # NoCircle =>
        /\ RecordsOf(circles[c].members, circles[c].owner_id) <= 1
        /\ \A s \in Slots : OwnerRequest(reqs[s], c) =>
              /\ reqs[s].pc = "done" => reqs[s].status # 403
              /\ reqs[s].pc # "heal" =>
                    /\ RecordsOf(circles[c].members, circles[c].owner_id) = 1
                    /\ MemberInfo(circles[c].members, circles[c].owner_id)
                         = MemberDoc(circles[c].owner_id, "admin", 0)

\* two owner requests in flight that both found the owner absent and have both
\* made the check's write
Wit_C1_ConcurrentHeals ==
    \E c \in CircleIds : \E s, t \in Slots :
        /\ s # t
        /\ OwnerRequest(reqs[s], c) /\ OwnerRequest(reqs[t], c)
        /\ reqs[s].pc \notin {"heal", "done"} /\ ~reqs[s].is_in_members
        /\ reqs[t].pc \notin {"heal", "done"} /\ ~reqs[t].is_in_members

\* C2: a circle's members array holds at most one document per user_id.
Cex_C2_NoDuplicateMembers ==
    \A c \in CircleIds : circles[c] # NoCircle =>
        \A u \in Users : RecordsOf(circles[c].members, u) <= 1

\* C3: the owner of every circle made by create_circle has a member document,
\* and its role is admin, whatever role changes, removals, joins and
\* invitation acceptances have been served.
Thm_C3_OwnerIsAdmin ==
    \A c \in CircleIds : circles[c] # NoCircle =>
        /\ IsMember(circles[c].members, circles[c].owner_id)
        /\ \A i \in 1..Len(circles[c].members) :
              circles[c].members[i].user_id = circles[c].owner_id
                  => circles[c].members[i].role = "admin"

\* another admin of the circle has asked to remove the owner, or to demote
\* the owner, and has been refused
Wit_C3_OwnerTargeted ==
    \E c \in CircleIds : \E s \in Slots :
        /\ circles[c] # NoCircle
        /\ reqs[s].pc = "done" /\ reqs[s].kind \in {"kick", "update_role"}
        /\ reqs[s].args.circle_id = c
        /\ reqs[s].args.target = circles[c].owner_id
        /\ reqs[s].actor # circles[c].owner_id
        /\ IsMember(circles[c].members, reqs[s].actor)
        /\ UserRole(reqs[s].actor, circles[c]) = "admin"
        /\ reqs[s].status = 403

\* slot s takes a new request of the given kind in this step
Began(s, kind) ==
    /\ reqs[s].pc = "idle"
    /\ reqs'[s].pc # "idle"
    /\ reqs'[s].kind = kind

RoleOf(circle, u) ==
    IF IsMember(circle.members, u) THEN MemberInfo(circle.members, u).role ELSE "none"

\* the rule for role changes as the specification states it
SetRoleAllowed(circle, actor, target, new_role) ==
    \/ /\ RoleOf(circle, actor) = "admin"
       /\ ~(target = circle.owner_id /\ new_role # "admin")
    \/ /\ RoleOf(circle, actor) = "moderator"
       /\ RoleOf(circle, target) = "member"
       /\ new_role = "member"

\* the member documents of user u, in order
DocsOf(members, u) == LET Of(m) == m.user_id = u IN SelectSeq(members, Of)

\* C5: a role change on an existing member is let through to its write exactly
\* when the actor is an admin and the change is not a demotion of the owner, or
\* the actor is a moderator, the target is a member and the new role is member;
\* otherwise it ends with 403 and no document changes, and a request that has
\* ended never writes.  Right after the write the target's role is the new role.
Thm_C5_SetRoleRule ==
    [][\A s \in Slots :
          /\ Began(s, "update_role") =>
                LET r == reqs'[s]
                    circle == circles[r.args.circle_id]
                IN  (circle # NoCircle /\ IsMember(circle.members, r.args.target)) =>
                       LET ok == SetRoleAllowed(circle, r.actor, r.args.target, r.args.role)
                       IN  /\ (r.pc = "role_write") <=> ok
                           /\ ~ok => r.pc = "done" /\ r.status = 403
                           /\ circles' = circles
          /\ (reqs[s].pc = "done" /\ reqs'[s] # reqs[s]) => circles' = circles
          /\ (reqs[s].pc = "role_write" /\ reqs'[s].pc # "role_write") =>
                LET r == reqs[s]
                    c == r.args.circle_id
                IN  IsMember(circles[c].members, r.args.target) =>
                       RoleOf(circles'[c], r.args.target) = r.args.role
      ]_vars

\* the specification's scenario: a moderator has been refused the promotion of
\* a member to admin, and an admin has made that member a moderator
Wit_C5_ModeratorDeniedAdminPromotes ==
    \E c \in CircleIds : \E s, t \in Slots :
        /\ circles[c] # NoCircle
        /\ reqs[s].pc = "done" /\ reqs[s].kind = "update_role" /\ reqs[s].status = 403
        /\ RoleOf(circles[c], reqs[s].actor) = "moderator"
        /\ reqs[s].args.role = "admin"
        /\ reqs[t].pc = "done" /\ reqs[t].kind = "update_role" /\ reqs[t].status = 200
        /\ RoleOf(circles[c], reqs[t].actor) = "admin"
        /\ reqs[t].args.target = reqs[s].args.target
        /\ reqs[t].args.role = "moderator"
        /\ RoleOf(circles[c], reqs[t].args.target) = "moderator"

\* the rule for removals as the specification states it
KickAllowed(circle, actor, target) ==
    \/ /\ RoleOf(circle, actor) = "admin"
       /\ IsMember(circle.members, target)
       /\ target # circle.owner_id
       /\ target # actor
    \/ /\ RoleOf(circle, actor) = "moderator"
       /\ RoleOf(circle, target) = "member"

\* C6: a removal is let through to its write exactly when the actor is an admin
\* and the target a member that is neither the owner nor the actor, or the actor
\* is a moderator and the target's role is member; a refused removal changes no
\* document; the write removes the target's documents and nothing else, and the
\* target of a write is never the owner and never the actor.
Thm_C6_RemoveMemberRule ==
    [][\A s \in Slots :
          /\ Began(s, "kick") =>
                LET r == reqs'[s]
                    circle == circles[r.args.circle_id]
                IN  circle # NoCircle =>
                       /\ (r.pc = "kick_write") <=> KickAllowed(circle, r.actor, r.args.target)
                       /\ r.pc # "kick_write" => r.pc = "done" /\ r.status \in {400, 403, 404}
                       /\ circles' = circles
          /\ (reqs[s].pc = "kick_write" /\ reqs'[s].pc # "kick_write") =>
                LET r == reqs[s]
                    c == r.args.circle_id
                IN  /\ r.args.target # circles[c].owner_id
                    /\ r.args.target # r.actor
                    /\ ~IsMember(circles'[c].members, r.args.target)
                    /\ \A u \in Users \ {r.args.target} :
                          DocsOf(circles'[c].members, u) = DocsOf(circles[c].members, u)
                    /\ Len(circles'[c].members)
                         = Len(circles[c].members) - RecordsOf(circles[c].members, r.args.target)
          /\ \A c \in CircleIds : circles[c] # NoCircle =>
                (IsMember(circles[c].members, circles[c].owner_id)
                    => IsMember(circles'[c].members, circles[c].owner_id))
      ]_vars

\* a moderator has removed a member, and a moderator has been refused the
\* removal of an admin
Wit_C6_ModeratorRemovesMember ==
    \E c \in CircleIds : \E s, t \in Slots :
        /\ circles[c] # NoCircle
        /\ reqs[s].pc = "done" /\ reqs[s].kind = "kick" /\ reqs[s].status = 200
        /\ RoleOf(circles[c], reqs[s].actor) = "moderator"
        /\ ~IsMember(circles[c].members, reqs[s].args.target)
        /\ reqs[t].pc = "done" /\ reqs[t].kind = "kick" /\ reqs[t].status = 403
        /\ RoleOf(circles[c], reqs[t].actor) = "moderator"
        /\ RoleOf(circles[c], reqs[t].args.target) = "admin"

\* slots s and t serve role changes on the same member of the same circle
SameTarget(r, q) ==
    /\ r.pc # "idle" /\ q.pc # "idle"
    /\ r.kind = "update_role" /\ q.kind = "update_role"
    /\ r.args.circle_id = q.args.circle_id
    /\ r.args.target = q.args.target

\* C7: of two role changes on one member in flight together, each is decided
\* on the circle document as it is when that request reads it, whatever write
\* the other still has to make; a write that has been let through is made
\* without a second look, so that right after it the member's role is the
\* role of that write; the write changes no other document and leaves the
\* other request's pending write in place.
Thm_C7_LastWriteWins ==
    [][\A s, t \in Slots : s # t =>
          /\ (Began(s, "update_role") /\ reqs[t].pc = "role_write" /\ SameTarget(reqs'[s], reqs[t])) =>
                LET r == reqs'[s]
                    circle == circles[r.args.circle_id]
                IN  /\ reqs'[t] = reqs[t]
                    /\ IsMember(circle.members, r.args.target) =>
                          ((r.pc = "role_write")
                              <=> SetRoleAllowed(circle, r.actor, r.args.target, r.args.role))
          /\ (reqs[s].pc = "role_write" /\ reqs'[s] # reqs[s]) =>
                LET r == reqs[s]
                    c == r.args.circle_id
                    members == circles[c].members
                IN  /\ reqs'[s].pc = "details"
                    /\ reqs'[t] = reqs[t]
                    /\ Len(circles'[c].members) = Len(members)
                    /\ \A i \in 1..Len(members) :
                          circles'[c].members[i] =
                              IF IsMember(members, r.args.target)
                                 /\ i = FirstIndex(members, r.args.target)
                              THEN [members[i] EXCEPT !.role = r.args.role]
                              ELSE members[i]
      ]_vars

\* one of two role changes on a member has been written, and the other, let
\* through on the document as it was before, is still to be written although
\* the rule would now refuse it
Wit_C7_StaleWritePending ==
    \E s, t \in Slots :
        /\ s # t
        /\ SameTarget(reqs[s], reqs[t])
        /\ reqs[s].pc = "details" /\ reqs[t].pc = "role_write"
        /\ reqs[s].args.role # reqs[t].args.role
        /\ LET circle == circles[reqs[s].args.circle_id]
           IN  /\ RoleOf(circle, reqs[s].args.target) = reqs[s].args.role
               /\ ~SetRoleAllowed(circle, reqs[t].actor, reqs[t].args.target, reqs[t].args.role)

(***************************************************************************)
(* Post claims                                                             *)
(***************************************************************************)
\* the circle a post request is about, 0 when its post does not exist
TargetCircle(r) ==
    IF r.kind = "create_post" THEN r.args.circle_id
    ELSE IF posts[r.args.post_id] = NoPost THEN 0
    ELSE posts[r.args.post_id].circle_id

\* a create-post, mark-seen or vote request of a user who is neither the owner
\* of the circle nor in its members
OutsiderRequest(r) ==
    /\ r.pc # "idle"
    /\ r.kind \in {"create_post", "mark_seen", "vote"}
    /\ TargetCircle(r) # 0
    /\ circles[TargetCircle(r)] # NoCircle
    /\ r.actor # circles[TargetCircle(r)].owner_id
    /\ ~IsMember(circles[TargetCircle(r)].members, r.actor)

\* C4: the step in which the handler checks the membership of an outsider ends
\* the request with 403; no step of an outsider's create-post, mark-seen or
\* vote request changes a circle, a post or the activity events, and such a
\* request ends with 403 (or, a vote on a post that is no poll, with the 400
\* raised before the check).
Thm_C4_OutsiderDenied ==
    [][\A s \in Slots :
          (reqs'[s] # reqs[s] /\ OutsiderRequest(reqs'[s])) =>
              /\ circles' = circles
              /\ posts' = posts
              /\ activity_events' = activity_events
              /\ (Began(s, "create_post") \/ reqs[s].pc \in {"seen_read_circle", "vote_read_circle"})
                    => (reqs'[s].pc = "done" /\ reqs'[s].status = 403)
              /\ reqs'[s].pc = "done" =>
                    \/ reqs'[s].status = 403
                    \/ /\ reqs'[s].status = 400
                       /\ reqs'[s].kind = "vote"
                       /\ posts[reqs'[s].args.post_id].post_type # "poll"
              /\ reqs'[s].pc \in {"done", "seen_read_circle", "vote_read_circle"}
      ]_vars

\* an outsider's vote on an open poll of the circle has been refused, and the
\* poll holds no vote
Wit_C4_OutsiderVoteRefused ==
    \E s \in Slots :
        /\ OutsiderRequest(reqs[s])
        /\ reqs[s].pc = "done" /\ reqs[s].kind = "vote" /\ reqs[s].status = 403
        /\ LET post == posts[reqs[s].args.post_id]
           IN  /\ post.post_type = "poll"
               /\ post.expires_at # None /\ now <= post.expires_at[1]
               /\ reqs[s].args.option_index < Len(post.options)
               /\ \A i \in 1..Len(post.options) : post.options[i].votes = {}

\* C10: the document a create stores has no seen entry and comment_count 0;
\* a poll's options have no votes and its expires_at is the creation time
\* plus the poll_duration_hours of the request.
Thm_C10_FreshPost ==
    [][\A p \in PostIds :
          (posts[p] = NoPost /\ posts'[p] # NoPost) =>
              \E s \in Slots :
                  /\ reqs[s].pc = "post_insert" /\ reqs'[s].pc = "post_event"
                  /\ posts'[p].seen_by_details = {}
                  /\ posts'[p].comment_count = 0
                  /\ posts'[p].created_at = now
                  /\ posts'[p].post_type = "poll" =>
                        /\ \A i \in 1..Len(posts'[p].options) : posts'[p].options[i].votes = {}
                        /\ reqs[s].args.post.poll_duration_hours # None
                        /\ posts'[p].expires_at
                             = Some(posts'[p].created_at + reqs[s].args.post.poll_duration_hours[1])
      ]_vars

\* a poll created at time 1 for MaxDuration hours is stored and the create has
\* answered 201
Wit_C10_PollStored ==
    \E p \in PostIds : \E s \in Slots :
        /\ posts[p] # NoPost
        /\ posts[p].post_type = "poll"
        /\ posts[p].created_at = 1
        /\ posts[p].expires_at = Some(1 + MaxDuration)
        /\ reqs[s].pc = "done" /\ reqs[s].kind = "create_post" /\ reqs[s].status = 201
        /\ reqs[s].args.post.poll_duration_hours = Some(MaxDuration)

\* the ids a create request asks for as chat participants
RequestedIds(p) == IF p.chat_participant_ids = None THEN {} ELSE p.chat_participant_ids[1]

\* C11: a create with chat enabled that stores a post stores, as the chat
\* participants, the author together with the requested ids, all of them
\* members of the circle; a create with chat enabled one of whose requested
\* ids is no member of the circle ends with 400 and stores nothing.
Thm_C11_ChatParticipantsOnCreate ==
    [][\A s \in Slots :
          (reqs[s].pc = "post_insert" /\ reqs'[s] # reqs[s] /\ reqs[s].args.post.is_chat_enabled) =>
              LET r == reqs[s]
                  members == circles[r.args.circle_id].members
                  wanted == {r.actor} \cup RequestedIds(r.args.post)
              IN  /\ reqs'[s].pc = "post_event" =>
                        /\ posts'[reqs'[s].local.post_id].is_chat_enabled
                        /\ posts'[reqs'[s].local.post_id].chat_participants = Some(wanted)
                        /\ \A u \in wanted : IsMember(members, u)
                  /\ (\E u \in RequestedIds(r.args.post) : ~IsMember(members, u)) =>
                        /\ reqs'[s].pc = "done" /\ reqs'[s].status = 400
                        /\ posts' = posts
      ]_vars

\* a post with chat is stored whose participants are its author and one more
\* member
Wit_C11_ChatPostStored ==
    \E p \in PostIds : \E s \in Slots :
        /\ posts[p] # NoPost
        /\ posts[p].is_chat_enabled
        /\ posts[p].chat_participants = Some({1, 2})
        /\ posts[p].author_id = 1
        /\ reqs[s].pc = "done" /\ reqs[s].kind = "create_post" /\ reqs[s].status = 201
        /\ reqs[s].args.post.chat_participant_ids = Some({2})

\* C12: the vote sets of a poll do not change in a step taken when the clock
\* has reached the poll's expires_at.
Cex_C12_NoVoteChangeAfterExpiry ==
    [][\A p \in PostIds :
          (/\ posts[p] # NoPost /\ posts'[p] # NoPost
           /\ posts[p].post_type = "poll"
           /\ posts[p].expires_at # None
           /\ now >= posts[p].expires_at[1])
              => \A i \in 1..Len(posts[p].options) :
                    posts'[p].options[i].votes = posts[p].options[i].votes
      ]_vars

\* a vote request on an existing post that is no poll, or with an
\* option_index that is no index of the poll's options
BadVote(r) ==
    /\ r.pc # "idle" /\ r.kind = "vote"
    /\ posts[r.args.post_id] # NoPost
    /\ \/ posts[r.args.post_id].post_type # "poll"
       \/ ~(r.args.option_index \in 0..(Len(posts[r.args.post_id].options) - 1))

\* C13: no step of a vote request on a post that is no poll, or with an index
\* out of range, changes a post; the request never reaches its updates and
\* ends with an error status (400, or the 403 of the membership and expiry
\* tests that come first).
Thm_C13_BadVoteRejected ==
    [][\A s \in Slots :
          (reqs'[s] # reqs[s] /\ BadVote(reqs'[s])) =>
              /\ posts' = posts
              /\ reqs'[s].pc \in {"vote_read_circle", "heal", "vote_expiry", "done"}
              /\ reqs'[s].pc = "done" => reqs'[s].status \in {400, 403}
              /\ (reqs'[s].pc = "done" /\ posts[reqs'[s].args.post_id].post_type # "poll")
                    => reqs'[s].status = 400
      ]_vars

\* a member whose vote is recorded on option 0 has voted again with an index
\* past the last option: 400, and the recorded vote is still there
Wit_C13_RecordedVoteKept ==
    \E s \in Slots :
        /\ BadVote(reqs[s])
        /\ reqs[s].pc = "done" /\ reqs[s].status = 400
        /\ posts[reqs[s].args.post_id].post_type = "poll"
        /\ reqs[s].args.option_index = Len(posts[reqs[s].args.post_id].options)
        /\ reqs[s].actor \in posts[reqs[s].args.post_id].options[1].votes

\* the options of post p whose vote set holds user u
VotedOptions(post, u) == { i \in 1..Len(post.options) : u \in post.options[i].votes }

\* C14: with one vote request at a time, the updates of a vote change nobody
\* else's votes, the last update leaves the voter in the vote set of the
\* chosen option and of no other, and that is the state of the poll when the
\* vote answers 200.
Thm_C14_VoteTransfers ==
    [][\A s \in Slots :
          (reqs[s].pc \in {"vote_pull", "vote_add", "vote_tally"} /\ reqs'[s] # reqs[s]) =>
              LET r == reqs[s]
                  p == r.args.post_id
              IN  /\ \A u \in Users \ {r.actor} :
                        VotedOptions(posts'[p], u) = VotedOptions(posts[p], u)
                  /\ r.pc = "vote_add" =>
                        VotedOptions(posts'[p], r.actor) = {r.args.option_index + 1}
                  /\ (r.pc = "vote_tally" /\ reqs'[s].status = 200) =>
                        VotedOptions(posts[p], r.actor) = {r.args.option_index + 1}
      ]_vars

\* the specification's scenario: a voter whose vote was on option 0 when the
\* request read the poll has voted option 1; option 0 counts 0, option 1 counts 1
Wit_C14_VoteMoved ==
    \E s \in Slots :
        /\ reqs[s].pc = "vote_tally"
        /\ reqs[s].args.option_index = 1
        /\ reqs[s].local.options[1].votes = {reqs[s].actor}
        /\ posts[reqs[s].args.post_id].options[1].votes = {}
        /\ posts[reqs[s].args.post_id].options[2].votes = {reqs[s].actor}

\* C15: no user is in the vote set of more than one option of a poll.
Cex_C15_OneOptionPerVoter ==
    \A p \in PostIds : (posts[p] # NoPost /\ posts[p].post_type = "poll") =>
        \A u \in Users : Cardinality(VotedOptions(posts[p], u)) <= 1

\* C16: the updates of a vote are applied one by one, whatever another vote
\* of the same voter has written in between: an update of the loop takes the
\* voter out of its one option and the last update puts the voter into the
\* chosen option, leaving the voter's place in every other option as it is.
Thm_C16_VoteUpdatesApart ==
    [][\A s \in Slots :
          LET r == reqs[s]
          IN  /\ (r.pc = "vote_pull" /\ reqs'[s] # r) =>
                    VotedOptions(posts'[r.args.post_id], r.actor)
                        = VotedOptions(posts[r.args.post_id], r.actor) \ {r.local.i + 1}
              /\ (r.pc = "vote_add" /\ reqs'[s] # r) =>
                    VotedOptions(posts'[r.args.post_id], r.actor)
                        = VotedOptions(posts[r.args.post_id], r.actor) \cup {r.args.option_index + 1}
      ]_vars

\* two votes of one voter for different options have both answered 200 and
\* the voter is counted in both options
Wit_C16_CountedTwice ==
    \E s, t \in Slots :
        /\ s # t
        /\ reqs[s].pc = "done" /\ reqs[s].kind = "vote" /\ reqs[s].status = 200
        /\ reqs[t].pc = "done" /\ reqs[t].kind = "vote" /\ reqs[t].status = 200
        /\ reqs[s].actor = reqs[t].actor
        /\ reqs[s].args.post_id = reqs[t].args.post_id
        /\ VotedOptions(posts[reqs[s].args.post_id], reqs[s].actor) = {1, 2}

RECURSIVE SumCounts(_)
SumCounts(opts) == IF opts = <<>> THEN 0 ELSE opts[1].votes + SumCounts(Tail(opts))

\* C17: the poll_results a vote returns are those the feed's enrichment gives
\* the voter for the post as it is at that moment; the total is the sum of the
\* options' counts, an option carries its text and the size of its vote set
\* and nothing else, the voter's index is the option voted, and is_expired is
\* the test "now > expires_at" by which a vote is refused as closed.
Thm_C17_TallyIsFeedView ==
    [][\A s \in Slots :
          (reqs[s].pc = "vote_tally" /\ reqs'[s].pc = "done" /\ reqs'[s].status = 200) =>
              LET r == reqs[s]
                  post == posts[r.args.post_id]
                  b == reqs'[s].body.poll_results
              IN  /\ Some(b) = PostOut(AggregatePost(post, r.args.post_id, r.actor, now)).poll_results
                  /\ b.total_votes = SumCounts(b.options)
                  /\ Len(b.options) = Len(post.options)
                  /\ \A i \in 1..Len(b.options) :
                        /\ DOMAIN b.options[i] = {"text", "votes"}
                        /\ b.options[i].text = post.options[i].text
                        /\ b.options[i].votes = Cardinality(post.options[i].votes)
                  /\ b.user_voted_index = r.args.option_index
                  /\ b.is_expired <=> (post.expires_at # None /\ now > post.expires_at[1])
                  /\ b.expires_at = post.expires_at
      ]_vars

\* a vote for the second option has answered with a tally of two votes
Wit_C17_TallyOfTwo ==
    \E s \in Slots :
        /\ reqs[s].pc = "done" /\ reqs[s].kind = "vote" /\ reqs[s].status = 200
        /\ reqs[s].body.poll_results.total_votes = 2
        /\ reqs[s].body.poll_results.user_voted_index = 1
        /\ reqs[s].args.option_index = 1

\* viewer v is no user, or a user who is neither owner nor member of the circle
NotOfCircle(v, circle) ==
    \/ v = Anonymous
    \/ (v # circle.owner_id /\ ~IsMember(circle.members, v))

\* C18: a feed read of a private circle by an anonymous viewer ends with 401
\* and by a user who is no member with 403, before any post is read; a feed
\* read of a public circle goes on to the posts for every viewer and ends
\* with 200.
Thm_C18_FeedGate ==
    [][\A s \in Slots :
          /\ Began(s, "circle_feed") =>
                LET r == reqs'[s]
                    circle == circles[r.args.circle_id]
                IN  circle # NoCircle =>
                       /\ (~circle.is_public /\ NotOfCircle(r.actor, circle)) =>
                             /\ r.pc = "done"
                             /\ r.status = IF r.actor = Anonymous THEN 401 ELSE 403
                       /\ circle.is_public => r.pc = "feed_count"
                       /\ r.pc # "done" => (circle.is_public \/ ~NotOfCircle(r.actor, circle))
          /\ (reqs[s].pc = "feed_count" /\ reqs'[s] # reqs[s]) => reqs'[s].pc = "feed_aggregate"
          /\ (reqs[s].pc = "feed_aggregate" /\ reqs'[s] # reqs[s]) =>
                (reqs'[s].pc = "done" /\ reqs'[s].status = 200)
      ]_vars

\* a user who is no member has been refused the feed of a private circle that
\* holds a post
Wit_C18_OutsiderRefusedFeed ==
    \E s \in Slots : \E p \in PostIds :
        /\ reqs[s].pc = "done" /\ reqs[s].kind = "circle_feed" /\ reqs[s].status = 403
        /\ reqs[s].actor # Anonymous
        /\ ~circles[reqs[s].args.circle_id].is_public
        /\ NotOfCircle(reqs[s].actor, circles[reqs[s].args.circle_id])
        /\ posts[p] # NoPost /\ posts[p].circle_id = reqs[s].args.circle_id

\* C19: for two states of a poll with the same counts per option, the same
\* vote of the viewer and the same users having seen it, the viewer is shown
\* the same post; what is shown has no seen_by_details, its options carry
\* their text only, and the options of poll_results a text and a number.
Thm_C19_ViewHidesVoters ==
    ret.tag = "enriched" =>
        /\ ret.a = ret.b
        /\ "seen_by_details" \notin DOMAIN ret.a
        /\ \A i \in 1..Len(ret.a.content.options) : DOMAIN ret.a.content.options[i] = {"text"}
        /\ ret.a.poll_results # None =>
              \A i \in 1..Len(ret.a.poll_results[1].options) :
                  /\ DOMAIN ret.a.poll_results[1].options[i] = {"text", "votes"}
                  /\ ret.a.poll_results[1].options[i].votes \in 0..NumUsers

\* a member has been shown a poll in two states in which the other voters
\* have swapped their options and the seen times differ
Wit_C19_VotersSwapped ==
    /\ ret.tag = "enriched"
    /\ arg.viewer = 2
    /\ arg.a.options[1].votes = {1, 2} /\ arg.b.options[1].votes = {2, 3}
    /\ arg.a.options[2].votes = {3} /\ arg.b.options[2].votes = {1}
    /\ arg.a.seen_by_details # arg.b.seen_by_details

\* what a response shows of a post's chat participants to the user viewer:
\* the stored list when the post has chat enabled and the viewer is on it,
\* nothing otherwise
ShownToParticipantOnly(out, post, viewer) ==
    LET on_list == /\ post.is_chat_enabled
                   /\ post.chat_participants # None
                   /\ viewer \in post.chat_participants[1]
    IN  /\ (out.chat_participants # None) <=> on_list
        /\ on_list => out.chat_participants = post.chat_participants

Cex_C21_AnonymousSeesNoParticipants ==
    \A s \in Slots :
        (/\ reqs[s].pc = "done" /\ reqs[s].kind = "circle_feed"
         /\ reqs[s].status = 200 /\ reqs[s].actor = Anonymous) =>
            \A i \in 1..Len(reqs[s].body.posts) :
                /\ reqs[s].body.posts[i].poll_results = None
                /\ reqs[s].body.posts[i].chat_participants = None

\* the posts of a finished feed read's circle that match its tag filter
MatchingPosts(r) == FeedMatches(r.args.circle_id, r.args.tags)

\* C22: the has_more of an answered feed read is (skip + number of returned
\* posts) < number of matching posts, which is true exactly when there are more
\* matching posts than skip + limit.
Thm_C22_HasMore ==
    \A s \in Slots :
        (reqs[s].pc = "done" /\ reqs[s].kind = "circle_feed" /\ reqs[s].status = 200) =>
            LET r == reqs[s]
                total == Cardinality(MatchingPosts(r))
            IN  /\ r.body.has_more = ((r.args.skip + Len(r.body.posts)) < total)
                /\ r.body.has_more <=> (total > r.args.skip + r.args.limit)

\* a read with a tag filter that leaves a matching post beyond its window, in
\* a circle that also holds a post without the tag
Wit_C22_MoreBeyondWindow ==
    \E s \in Slots :
        /\ reqs[s].pc = "done" /\ reqs[s].kind = "circle_feed" /\ reqs[s].status = 200
        /\ reqs[s].args.tags = {FeedTag} /\ reqs[s].args.skip = 0
        /\ reqs[s].body.has_more
        /\ Cardinality(MatchingPosts(reqs[s])) = 2
        /\ Cardinality(FeedMatches(reqs[s].args.circle_id, {})) = 3

\* the matching posts created after post p, and those created no earlier
NewerThan(r, p) == { x \in MatchingPosts(r) : posts[x].created_at > posts[p].created_at }
NotOlderThan(r, p) == { x \in MatchingPosts(r) : posts[x].created_at >= posts[p].created_at }

\* C23: an answered feed read returns the posts at positions skip .. skip +
\* limit - 1 of the matching posts, newest first: as many as that window
\* holds, each one matching and returned once, none older than one returned
\* after it, and each at a position its creation time allows.
Thm_C23_NewestFirstWindow ==
    \A s \in Slots :
        (reqs[s].pc = "done" /\ reqs[s].kind = "circle_feed" /\ reqs[s].status = 200) =>
            LET r == reqs[s]
                out == r.body.posts
                total == Cardinality(MatchingPosts(r))
                rest == IF total > r.args.skip THEN total - r.args.skip ELSE 0
            IN  /\ Len(out) = IF rest < r.args.limit THEN rest ELSE r.args.limit
                /\ \A i \in 1..Len(out) : out[i].id \in MatchingPosts(r)
                /\ \A i, j \in 1..Len(out) :
                      i < j => /\ out[i].id # out[j].id
                               /\ out[i].created_at >= out[j].created_at
                /\ \A i \in 1..Len(out) :
                      /\ out[i].created_at = posts[out[i].id].created_at
                      /\ Cardinality(NewerThan(r, out[i].id)) <= r.args.skip + i - 1
                      /\ Cardinality(NotOlderThan(r, out[i].id)) >= r.args.skip + i

\* a read of three matching posts that skips one and returns the next, which
\* has exactly one matching post newer than itself and leaves one behind
Wit_C23_SecondPage ==
    \E s \in Slots :
        /\ reqs[s].pc = "done" /\ reqs[s].kind = "circle_feed" /\ reqs[s].status = 200
        /\ reqs[s].args.skip = 1 /\ reqs[s].args.limit = 1
        /\ Cardinality(MatchingPosts(reqs[s])) = 3
        /\ Len(reqs[s].body.posts) = 1
        /\ Cardinality(NewerThan(reqs[s], reqs[s].body.posts[1].id)) = 1
        /\ reqs[s].body.has_more

\* the seen entries of post p that belong to user u, and the others
SeenOf(details, u) == { d \in details : d.user_id = u }
SeenOfOthers(details, u) == { d \in details : d.user_id # u }

\* C24: a mark_seen of V that runs alone leaves the other users' entries as
\* they were at both of its updates, and when it completes the post holds one
\* entry for V, carrying the time of this call, whatever entry V had before.
Thm_C24_SeenReplaced ==
    [][\A s \in Slots :
          LET r == reqs[s]
          IN  (r.pc \in {"seen_pull", "seen_add"} /\ reqs'[s] # r
                  /\ posts[r.args.post_id] # NoPost) =>
                 LET before == posts[r.args.post_id].seen_by_details
                     after == posts'[r.args.post_id].seen_by_details
                 IN  /\ SeenOfOthers(after, r.actor) = SeenOfOthers(before, r.actor)
                     /\ r.pc = "seen_pull" => SeenOf(after, r.actor) = {}
                     /\ r.pc = "seen_add" =>
                           /\ reqs'[s].pc = "done" /\ reqs'[s].status = 204
                           /\ SeenOf(after, r.actor) =
                                 {[user_id |-> r.actor, seen_at |-> now]}
      ]_vars

\* member 1 has marked the post at a time later than its creation and later
\* than member 2 did; the post holds one entry for each
Wit_C24_MarkedLater ==
    \E s \in Slots :
        /\ reqs[s].pc = "done" /\ reqs[s].kind = "mark_seen" /\ reqs[s].status = 204
        /\ reqs[s].actor = 1 /\ now = MaxTime
        /\ posts[reqs[s].args.post_id] # NoPost
        /\ posts[reqs[s].args.post_id].seen_by_details =
              {[user_id |-> 1, seen_at |-> MaxTime], [user_id |-> 2, seen_at |-> 0]}

\* C25: seen_by_details of every post holds at most one entry per user.
Cex_C25_OneSeenEntryPerUser ==
    \A p \in PostIds :
        posts[p] # NoPost =>
            \A d1, d2 \in posts[p].seen_by_details : d1.user_id = d2.user_id => d1 = d2

\* the elements of a sequence
Elems(q) == { q[i] : i \in 1..Len(q) }

\* C26: an answered seen-status read puts every current member of the post's
\* circle on exactly one of the lists seen and unseen, on seen exactly when
\* seen_by_details has an entry of that member, and puts no other user on
\* either list.
Thm_C26_SeenStatusPartition ==
    \A s \in Slots :
        (reqs[s].pc = "done" /\ reqs[s].kind = "seen_status" /\ reqs[s].status = 200) =>
            LET r == reqs[s]
                post == posts[r.args.post_id]
                current == MemberIds(circles[post.circle_id].members)
                seen == Elems(r.body.seen)
                unseen == Elems(r.body.unseen)
            IN  /\ \A m \in current :
                      /\ (m \in seen) # (m \in unseen)
                      /\ (m \in seen) <=> (\E d \in post.seen_by_details : d.user_id = m)
                /\ \A u \in Users \ current : u \notin seen /\ u \notin unseen

\* a read of a post that a former member has marked seen, one current member
\* has and one has not
Wit_C26_FormerMemberLeftOut ==
    \E s \in Slots :
        /\ reqs[s].pc = "done" /\ reqs[s].kind = "seen_status" /\ reqs[s].status = 200
        /\ reqs[s].body.seen = <<2>> /\ reqs[s].body.unseen = <<1>>
        /\ \E d \in posts[reqs[s].args.post_id].seen_by_details : d.user_id = NumUsers
        /\ NumUsers \notin MemberIds(circles[1].members)

\* sequence q starts with sequence r
IsPrefix(r, q) == Len(r) <= Len(q) /\ SubSeq(q, 1, Len(r)) = r

\* C27: in every step that keeps a post, its chat_messages before the step are
\* a prefix of those after it, and a message is appended only while the post
\* has chat enabled and the sender is among its chat participants.
Cex_C27_AppendOnlyByParticipants ==
    [][\A p \in PostIds :
          (posts[p] # NoPost /\ posts'[p] # NoPost) =>
              /\ IsPrefix(posts[p].chat_messages, posts'[p].chat_messages)
              /\ Len(posts'[p].chat_messages) > Len(posts[p].chat_messages) =>
                    LET m == posts'[p].chat_messages[Len(posts'[p].chat_messages)]
                    IN  /\ posts[p].is_chat_enabled
                        /\ posts[p].chat_participants # None
                        /\ m.sender_id \in posts[p].chat_participants[1]
      ]_vars

\* C28: a post with a non-empty chat_participants set has chat enabled.
Cex_C28_ParticipantsOnlyWithChat ==
    \A p \in PostIds :
        (/\ posts[p] # NoPost
         /\ posts[p].chat_participants # None
         /\ posts[p].chat_participants[1] # {}) => posts[p].is_chat_enabled

\* C29: a post creation never ends with the status of a failed call to the
\* Spotify API (404 playlist not found, 502 error communicating).
Cex_C29_EnrichmentNeverFails ==
    [][\A s \in Slots :
          (reqs[s].pc = "post_insert" /\ reqs'[s].pc = "done") =>
              reqs'[s].status \notin {404, 502}
      ]_vars

\* a post as the edit and delete rules see it: everything but its chat messages
Edited(post) == IF post = NoPost THEN post ELSE [post EXCEPT !.chat_messages = <<>>]

\* the author of the post, or a moderator or admin of the circle
MayChange(circle, post, u) ==
    post.author_id = u \/ RoleOf(circle, u) \in {"moderator", "admin"}

\* C30: an edit or delete request of a user who is neither the post's author
\* nor a moderator or admin of its circle ends with 403 at once; the post
\* changes, other than by a chat message, only in the write of an edit or
\* delete request whose user is the author, a moderator or an admin.
Thm_C30_EditAndDeleteRule ==
    [][\A s \in Slots :
          /\ (Began(s, "update_post") \/ Began(s, "delete_post")) =>
                LET r == reqs'[s]
                    c == r.args.circle_id
                    p == r.args.post_id
                IN  (/\ circles[c] # NoCircle /\ posts[p] # NoPost
                     /\ ~MayChange(circles[c], posts[p], r.actor)) =>
                        /\ r.pc = "done" /\ r.status = 403
                        /\ posts' = posts
          /\ \A p \in PostIds :
                Edited(posts'[p]) # Edited(posts[p]) =>
                    \E t \in Slots :
                        /\ reqs[t].pc \in {"upd_write", "del_write"}
                        /\ reqs'[t] # reqs[t]
                        /\ reqs[t].args.post_id = p
                        /\ MayChange(circles[reqs[t].args.circle_id], posts[p], reqs[t].actor)
      ]_vars

\* a plain member has been refused the deletion of the owner's post, which is
\* still there
Wit_C30_MemberRefused ==
    \E s \in Slots :
        /\ reqs[s].pc = "done" /\ reqs[s].kind = "delete_post" /\ reqs[s].status = 403
        /\ posts[reqs[s].args.post_id] # NoPost
        /\ posts[reqs[s].args.post_id].author_id # reqs[s].actor
        /\ RoleOf(circles[reqs[s].args.circle_id], reqs[s].actor) = "member"

\* C32: a create-post request that ends with a status other than 201 (and
\* other than the 500 of a post that vanished after its insert) is answered
\* before the insert, in a step that leaves posts and activity events as they
\* were.
Thm_C32_RejectedCreateStoresNothing ==
    [][\A s \in Slots :
          (/\ reqs'[s].pc = "done" /\ reqs[s].pc # "done"
           /\ reqs'[s].kind = "create_post"
           /\ reqs'[s].status \notin {201, 500}) =>
              /\ reqs[s].pc \in {"idle", "post_insert"}
              /\ posts' = posts
              /\ activity_events' = activity_events
      ]_vars

\* a member's chat post naming a user outside the circle has been refused
\* with 400; the circle has no post and no activity event
Wit_C32_ChatPostRefused ==
    \E s \in Slots :
        /\ reqs[s].pc = "done" /\ reqs[s].kind = "create_post" /\ reqs[s].status = 400
        /\ reqs[s].args.post.is_chat_enabled
        /\ ~NotOfCircle(reqs[s].actor, circles[reqs[s].args.circle_id])
        /\ \A p \in PostIds : posts[p] = NoPost
        /\ activity_events = {}

\* C31: every post of an answered personal feed belongs to a circle that has
\* the viewer among its members, and to the circle of the filter when one was
\* given; a request that filters by a circle the viewer is not a member of
\* ends with 403.
Cex_C31_MyFeedOfMyCircles ==
    [][\A s \in Slots :
          /\ (reqs'[s].pc = "done" /\ reqs[s].pc # "done" /\ reqs'[s].kind = "my_feed"
                /\ reqs'[s].status = 200) =>
                \A i \in 1..Len(reqs'[s].body.posts) :
                    LET c == reqs'[s].body.posts[i].circle_id
                    IN  /\ circles[c] # NoCircle
                        /\ IsMember(circles[c].members, reqs'[s].actor)
                        /\ reqs'[s].args.circle_id \in {None, Some(c)}
          /\ Began(s, "my_feed") =>
                LET r == reqs'[s]
                IN  (/\ r.args.circle_id # None
                     /\ \/ circles[r.args.circle_id[1]] = NoCircle
                        \/ ~IsMember(circles[r.args.circle_id[1]].members, r.actor)) =>
                        (r.pc = "done" /\ r.status = 403)
      ]_vars

\* C33: no user is a member of two circles whose names are equal ignoring
\* case.
Cex_C33_NoSameNamedCircles ==
    \A u \in Users : \A c1, c2 \in DOMAIN circles :
        (/\ c1 # c2
         /\ circles[c1] # NoCircle /\ circles[c2] # NoCircle
         /\ IsMember(circles[c1].members, u) /\ IsMember(circles[c2].members, u)) =>
            LowerName(circles[c1].name) # LowerName(circles[c2].name)

\* C34: in every state a post whose chat is enabled has its author among its
\* chat participants.
Cex_C34_AuthorAlwaysParticipant ==
    \A p \in DOMAIN posts :
        (posts[p] # NoPost /\ posts[p].is_chat_enabled) =>
            /\ posts[p].chat_participants # None
            /\ posts[p].author_id \in posts[p].chat_participants[1]

\* C35: every chat participant of a post is a member of the post's circle,
\* and a chat message is appended only for a sender who is a member of the
\* post's circle when the message is stored.
Cex_C35_ChatForMembersOnly ==
    [][\A p \in DOMAIN posts :
          posts[p] # NoPost =>
              LET members == MemberIds(circles[posts[p].circle_id].members)
              IN  /\ posts[p].chat_participants # None =>
                        posts[p].chat_participants[1] \subseteq members
                  /\ (posts'[p] # NoPost
                        /\ Len(posts'[p].chat_messages) > Len(posts[p].chat_messages)) =>
                        posts'[p].chat_messages[Len(posts'[p].chat_messages)].sender_id
                            \in members
      ]_vars

\* C36: the removal written by a request whose actor was authorized as a
\* moderator never removes a member whose role is moderator or admin in the
\* state in which the removal is written.
Cex_C36_ModeratorRemovesMembersOnly ==
    [][\A s \in Slots :
          (/\ reqs[s].pc = "kick_write" /\ reqs'[s].pc # "kick_write"
           /\ reqs[s].local.user_role = "moderator") =>
              LET c == reqs[s].args.circle_id
                  target == reqs[s].args.target
              IN  (/\ circles[c] # NoCircle
                   /\ RoleOf(circles[c], target) \in {"moderator", "admin"}) =>
                      IsMember(circles'[c].members, target)
      ]_vars

\* C37: the status of an invitation changes only from pending, to accepted or
\* rejected, in a step of a request of its invitee; an invitation whose
\* status is rejected has not added its invitee to the circle; and the
\* invitee is in the circle at most once, with role member.
Cex_C37_InvitationAnsweredOnce ==
    [][\A i \in InvitationIds :
          (invitations[i] # NoInvitation /\ invitations'[i] # NoInvitation) =>
              LET inv == invitations[i]
                  members == circles'[inv.circle_id].members
              IN  /\ invitations'[i].status # inv.status =>
                        /\ inv.status = "pending"
                        /\ invitations'[i].status \in {"accepted", "rejected"}
                        /\ \E s \in Slots : /\ reqs[s].pc \notin {"idle", "done"}
                                            /\ reqs'[s] # reqs[s]
                                            /\ reqs[s].actor = inv.invitee_id
                  /\ invitations'[i].status = "rejected" =>
                        ~IsMember(members, inv.invitee_id)
                  /\ IsMember(members, inv.invitee_id) =>
                        DocsOf(members, inv.invitee_id)
                            = <<MemberDoc(inv.invitee_id, "member", inv.inviter_id)>>
      ]_vars

\* C38: after a user's mark_seen of a post has completed, every feed read by
\* that user reports the post with is_seen_by_user true.  (Both members'
\* marks have completed in the first state, so that every read is later.)
Cex_C38_SeenStaysSeen ==
    [][\A s \in Slots :
          (/\ reqs[s].pc # "done" /\ reqs'[s].pc = "done"
           /\ reqs'[s].kind = "circle_feed" /\ reqs'[s].status = 200) =>
              \A i \in 1..Len(reqs'[s].body.posts) : reqs'[s].body.posts[i].is_seen_by_user
      ]_vars

====
